---- MODULE Spec2Model ----
(***************************************************************************)
(* Smart Portfolio Monitor (src/app.py): the analytics engine and the      *)
(* refresh cycle of main().                                                *)
(*                                                                         *)
(* Numbers.  Prices and quantities are integers (rupees, shares).  Python  *)
(* floats that are quotients are kept in fixed point: a percentage is an   *)
(* integer number of hundredths of a percent (Pct), an exponential moving  *)
(* average is an integer number of 1/FP.  Comparisons against the integer  *)
(* thresholds of the code are exact on these values.  NaN is the value NaN *)
(* and every comparison with NaN is false, as in IEEE arithmetic.          *)
(* Python's None is the record None; a DataFrame is a record of columns.   *)
(***************************************************************************)
EXTENDS Integers, Sequences, FiniteSets, TLC

\* ------------------------------------------------------------------------
\* Bounds of the model
\* ------------------------------------------------------------------------
MaxTicks == 1
MaxApiCalls == 4
MaxPositions == 3
MaxBars == 15
MaxTrades == 1

\* ------------------------------------------------------------------------
\* Values
\* ------------------------------------------------------------------------
FP == 1000
NaN == -999999
None == [none |-> TRUE]

IsNone(x) == "none" \in DOMAIN x

\* an exception that left the function instead of a return value
Raised == [raised |-> TRUE]

IsRaised(x) == "raised" \in DOMAIN x

IsNaN(x) == x = NaN

\* dict.get(key, default)
Get(d, key, default) == IF key \in DOMAIN d THEN d[key] ELSE default

Abs(x) == IF x < 0 THEN -x ELSE x

Max(a, b) == IF a > b THEN a ELSE b

Min(a, b) == IF a < b THEN a ELSE b

\* (num / den) * 100 in hundredths of a percent, den > 0
Pct(num, den) == (num * 10000) \div den

\* comparisons of possibly-NaN numbers
Gt(a, b) == ~IsNaN(a) /\ ~IsNaN(b) /\ a > b

\* the set of the elements of a sequence
Range(q) == { q[k] : k \in 1..Len(q) }

\* Series.iloc[-1] of a non-empty series
iloc_last(s) == s[Len(s)]

DataFrame(closes) == [Close |-> closes]

Empty(df) == Len(df.Close) = 0

\* ------------------------------------------------------------------------
\* Technical indicators
\* ------------------------------------------------------------------------
\* 100 - 100 / (1 + avg_gain / avg_loss), a zero avg_loss replaced by
\* the machine epsilon: 0 / eps = 0 gives 0, x / eps gives 100
rsi_value(avg_gain, avg_loss) ==
    IF avg_loss = 0
    THEN (IF avg_gain = 0 THEN 0 ELSE 10000)
    ELSE 10000 - (10000 * avg_loss) \div (avg_gain + avg_loss)

\* gain.ewm(alpha=1/period, adjust=False).mean() and the same for loss, up
\* to bar t: y[1] = x[1], y[t] = (1 - alpha) * y[t-1] + alpha * x[t], where
\* the gain x[t] is the rise of the close over the bar before (0 when it
\* fell) and the loss is the fall (0 when it rose)
RECURSIVE rsi_acc(_, _, _, _, _)
rsi_acc(prices, period, t, avg_gain, avg_loss) ==
    IF t > Len(prices) THEN rsi_value(avg_gain, avg_loss)
    ELSE rsi_acc(prices, period, t + 1,
                 ((period - 1) * avg_gain
                    + (IF prices[t] > prices[t - 1]
                       THEN FP * (prices[t] - prices[t - 1]) ELSE 0)) \div period,
                 ((period - 1) * avg_loss
                    + (IF prices[t] < prices[t - 1]
                       THEN FP * (prices[t - 1] - prices[t]) ELSE 0)) \div period)

\* calculate_rsi(prices, period).iloc[-1] in hundredths.  prices.diff() is
\* NaN at the first bar, NaN > 0 and NaN < 0 are false, so the first gain
\* and loss are 0; min_periods = period leaves the first period - 1 bars NaN
calculate_rsi(prices, period) ==
    IF Len(prices) < period THEN NaN ELSE rsi_acc(prices, period, 2, 0, 0)

RsiPeriod == 14

\* exp_fast, exp_slow and signal_line of calculate_macd up to bar t
\* (ewm(span=s, adjust=False): alpha = 2 / (s + 1); fast=12, slow=26, signal=9)
RECURSIVE macd_acc(_, _, _, _, _)
macd_acc(prices, t, exp_fast, exp_slow, signal_line) ==
    IF t > Len(prices) THEN (exp_fast - exp_slow) - signal_line
    ELSE macd_acc(prices, t + 1,
                  (11 * exp_fast + 2 * FP * prices[t]) \div 13,
                  (25 * exp_slow + 2 * FP * prices[t]) \div 27,
                  (8 * signal_line
                     + 2 * (((11 * exp_fast + 2 * FP * prices[t]) \div 13)
                            - ((25 * exp_slow + 2 * FP * prices[t]) \div 27))) \div 10)

\* histogram.iloc[-1] of calculate_macd(prices), in 1/FP
calculate_macd(prices) ==
    macd_acc(prices, 2, FP * prices[1], FP * prices[1], 0)

momentum_trend_of(score) ==
    IF score >= 70 THEN "STRONG BULLISH"
    ELSE IF score >= 55 THEN "BULLISH"
    ELSE IF score >= 45 THEN "NEUTRAL"
    ELSE IF score >= 30 THEN "BEARISH"
    ELSE "STRONG BEARISH"

calculate_momentum_score(df) ==
    LET close == df.Close
        rsi0 == calculate_rsi(close, RsiPeriod)
        rsi == IF IsNaN(rsi0) THEN 5000 ELSE rsi0
        rsi_adj == IF rsi > 7000 THEN -10
                   ELSE IF rsi > 6000 THEN 15
                   ELSE IF rsi > 5000 THEN 10
                   ELSE IF rsi < 3000 THEN 10
                   ELSE -10
        hist == calculate_macd(close)
        macd_adj == IF hist > 0 THEN 20 ELSE -20
        score == Max(0, Min(100, 50 + rsi_adj + macd_adj))
    IN  [score |-> score, trend |-> momentum_trend_of(score)]

\* ------------------------------------------------------------------------
\* Support and resistance
\* ------------------------------------------------------------------------
LookbackDefault == 60

SeqMax(q) == CHOOSE x \in Range(q) : \A y \in Range(q) : y <= x

SeqMin(q) == CHOOSE x \in Range(q) : \A y \in Range(q) : x <= y

\* Series.tail(n)
tail(q, n) == SubSeq(q, Len(q) - n + 1, Len(q))

\* list[-5:]
last5(q) == IF Len(q) > 5 THEN SubSeq(q, Len(q) - 4, Len(q)) ELSE q

\* the pivot highs of the loop for i in range(3, len(high) - 3), from
\* position j on (j = i + 1), in the order they are appended
RECURSIVE pivot_highs_from(_, _)
pivot_highs_from(high, j) ==
    IF j > Len(high) - 3 THEN << >>
    ELSE (IF high[j] >= high[j - 1] /\ high[j] >= high[j + 1] THEN << high[j] >> ELSE << >>)
         \o pivot_highs_from(high, j + 1)

RECURSIVE pivot_lows_from(_, _)
pivot_lows_from(low, j) ==
    IF j > Len(low) - 3 THEN << >>
    ELSE (IF low[j] <= low[j - 1] /\ low[j] <= low[j + 1] THEN << low[j] >> ELSE << >>)
         \o pivot_lows_from(low, j + 1)

\* the values of q above x, in order
RECURSIVE above(_, _)
above(q, x) ==
    IF q = << >> THEN << >>
    ELSE (IF Head(q) > x THEN << Head(q) >> ELSE << >>) \o above(Tail(q), x)

\* find_support_resistance that takes the lowest pivot high, above the
\* current price or not
find_support_resistance_any_high(df, lookback0) ==
    LET lookback == IF Len(df.Close) < lookback0 THEN Len(df.Close) ELSE lookback0
        high == tail(df.High, lookback)
        low == tail(df.Low, lookback)
        current_price == iloc_last(df.Close)
        pivot_highs == pivot_highs_from(high, 4)
        pivot_lows == pivot_lows_from(low, 4)
        nearest_support == IF pivot_lows # << >> THEN SeqMax(pivot_lows) ELSE SeqMin(low)
        nearest_resistance == IF pivot_highs # << >> THEN SeqMin(pivot_highs) ELSE SeqMax(high)
    IN  [support_levels |-> last5(pivot_lows),
         resistance_levels |-> last5(pivot_highs),
         nearest_support |-> FP * nearest_support,
         nearest_resistance |-> FP * nearest_resistance,
         distance_to_support |-> Pct(current_price - nearest_support, current_price),
         distance_to_resistance |-> Pct(nearest_resistance - current_price, current_price),
         support_strength |-> IF Len(pivot_lows) >= 3 THEN "STRONG" ELSE "WEAK",
         resistance_strength |-> IF Len(pivot_highs) >= 3 THEN "STRONG" ELSE "WEAK"]

\* find_support_resistance(df, lookback): levels in 1/FP, distances in
\* hundredths of a percent; an empty frame raises at iloc[-1]
find_support_resistance(df, lookback0) ==
    LET lookback == IF Len(df.Close) < lookback0 THEN Len(df.Close) ELSE lookback0
    IN  IF Len(df.Close) = 0 THEN Raised
        ELSE IF lookback < 10
        THEN [support_levels |-> << >>,
              resistance_levels |-> << >>,
              nearest_support |-> 950 * iloc_last(df.Close),
              nearest_resistance |-> 1050 * iloc_last(df.Close),
              distance_to_support |-> 500,
              distance_to_resistance |-> 500,
              support_strength |-> "WEAK",
              resistance_strength |-> "WEAK"]
        ELSE
        LET high == tail(df.High, lookback)
            low == tail(df.Low, lookback)
            close == tail(df.Close, lookback)
            current_price == iloc_last(close)
            pivot_highs == pivot_highs_from(high, 4)
            pivot_lows == pivot_lows_from(low, 4)
            nearest_support == IF pivot_lows # << >> THEN SeqMax(pivot_lows) ELSE SeqMin(low)
            nearest_resistance == IF above(pivot_highs, current_price) # << >>
                                  THEN SeqMin(above(pivot_highs, current_price))
                                  ELSE SeqMax(high)
        IN  [support_levels |-> last5(pivot_lows),
             resistance_levels |-> last5(pivot_highs),
             nearest_support |-> FP * nearest_support,
             nearest_resistance |-> FP * nearest_resistance,
             distance_to_support |-> Pct(current_price - nearest_support, current_price),
             distance_to_resistance |-> Pct(nearest_resistance - current_price, current_price),
             support_strength |-> IF Len(pivot_lows) >= 3 THEN "STRONG" ELSE "WEAK",
             resistance_strength |-> IF Len(pivot_highs) >= 3 THEN "STRONG" ELSE "WEAK"]

\* ------------------------------------------------------------------------
\* Stop-loss risk
\* ------------------------------------------------------------------------
\* the distance of a LONG position, whatever the direction
sl_distance_pct_undirected(current_price, stop_loss, position_type) ==
    Pct(current_price - stop_loss, current_price)

\* distance to the stop in percent of the current price, direction-aware
sl_distance_pct(current_price, stop_loss, position_type) ==
    IF position_type = "LONG"
    THEN Pct(current_price - stop_loss, current_price)
    ELSE Pct(stop_loss - current_price, current_price)

sl_recommendation_of(risk_score) ==
    IF risk_score >= 80 THEN [recommendation |-> "EXIT NOW", priority |-> "CRITICAL"]
    ELSE IF risk_score >= 60 THEN [recommendation |-> "CONSIDER EXIT", priority |-> "HIGH"]
    ELSE IF risk_score >= 40 THEN [recommendation |-> "WATCH CLOSELY", priority |-> "MEDIUM"]
    ELSE [recommendation |-> "SAFE", priority |-> "LOW"]

\* predict_sl_risk with the tiers in the wrong order (a closer stop scores less)
predict_sl_risk_swapped(df, current_price, stop_loss, position_type, entry_price) ==
    LET distance_pct == sl_distance_pct(current_price, stop_loss, position_type)
        risk_score == IF distance_pct < 0 THEN 100
                      ELSE IF distance_pct < 100 THEN 30
                      ELSE IF distance_pct < 200 THEN 40
                      ELSE IF distance_pct < 300 THEN 15
                      ELSE 0
        rec == sl_recommendation_of(risk_score)
    IN  [risk_score |-> risk_score,
         reasons |-> IF distance_pct < 0 THEN << "SL breached!" >> ELSE << >>,
         recommendation |-> rec.recommendation,
         priority |-> rec.priority]

\* predict_sl_risk that needs the price to be more than 2% through the stop
predict_sl_risk_late(df, current_price, stop_loss, position_type, entry_price) ==
    LET distance_pct == sl_distance_pct(current_price, stop_loss, position_type)
        risk_score == IF distance_pct < -200 THEN 100
                      ELSE IF distance_pct < 100 THEN 40
                      ELSE IF distance_pct < 200 THEN 30
                      ELSE IF distance_pct < 300 THEN 15
                      ELSE 0
        rec == sl_recommendation_of(risk_score)
    IN  [risk_score |-> risk_score,
         reasons |-> IF distance_pct < -200 THEN << "SL breached!" >> ELSE << >>,
         recommendation |-> rec.recommendation,
         priority |-> rec.priority]

\* predict_sl_risk with if / if in place of if / elif and without the cap
predict_sl_risk_uncapped(df, current_price, stop_loss, position_type, entry_price) ==
    LET distance_pct == sl_distance_pct(current_price, stop_loss, position_type)
        risk_score == (IF distance_pct < 0 THEN 100 ELSE 0)
                      + (IF distance_pct < 100 THEN 40
                         ELSE IF distance_pct < 200 THEN 30
                         ELSE IF distance_pct < 300 THEN 15
                         ELSE 0)
        rec == sl_recommendation_of(risk_score)
    IN  [risk_score |-> risk_score,
         reasons |-> IF distance_pct < 0 THEN << "SL breached!" >> ELSE << >>,
         recommendation |-> rec.recommendation,
         priority |-> rec.priority]

predict_sl_risk(df, current_price, stop_loss, position_type, entry_price) ==
    LET distance_pct == sl_distance_pct(current_price, stop_loss, position_type)
        tier == IF distance_pct < 0
                THEN [risk_score |-> 100, reasons |-> << "SL breached!" >>]
                ELSE IF distance_pct < 100
                THEN [risk_score |-> 0 + 40, reasons |-> << "Very close" >>]
                ELSE IF distance_pct < 200
                THEN [risk_score |-> 0 + 30, reasons |-> << "Close" >>]
                ELSE IF distance_pct < 300
                THEN [risk_score |-> 0 + 15, reasons |-> << "Approaching" >>]
                ELSE [risk_score |-> 0, reasons |-> << >>]
        risk_score == Min(100, tier.risk_score)
        rec == sl_recommendation_of(risk_score)
    IN  [risk_score |-> risk_score,
         reasons |-> tier.reasons,
         recommendation |-> rec.recommendation,
         priority |-> rec.priority]

\* ------------------------------------------------------------------------
\* Market data access and the session state it keeps
\* ------------------------------------------------------------------------
NsTickers == {"XYZ.NS"}

\* symbol = ticker if '.NS' in ticker else ticker + '.NS'
symbol_of(ticker) == IF ticker \in NsTickers THEN ticker ELSE ticker \o ".NS"

\* st.session_state.last_api_call / api_call_count after one call; the
\* time stamp of a call is its ordinal among the calls of the session
rate_limited_api_call(ticker, session) ==
    [last_api_call |->
        [k \in DOMAIN session.last_api_call \cup {ticker} |->
            IF k = ticker THEN session.api_call_count + 1
            ELSE session.last_api_call[k]],
     api_call_count |-> session.api_call_count + 1]

FetchOutcome == {"raise", "empty", "data"}

FetchOutcomes == [1..3 -> FetchOutcome]

RECURSIVE fetch_attempt(_, _, _, _, _)
fetch_attempt(symbol, attempt, outcomes, history, session) ==
    IF attempt >= 3 THEN [df |-> None, session |-> session]
    ELSE IF outcomes[attempt + 1] = "data" /\ Len(history) > 0
         THEN [df |-> DataFrame(history),
               session |-> rate_limited_api_call(symbol, session)]
         ELSE fetch_attempt(symbol, attempt + 1, outcomes, history,
                            rate_limited_api_call(symbol, session))

\* get_stock_data_safe whose handler lets the exception of the last attempt go
get_stock_data_safe_reraise(ticker, outcomes, history, session) ==
    IF outcomes[3] = "raise" /\ fetch_attempt(symbol_of(ticker), 0, outcomes, history, session).df = None
    THEN [df |-> Raised,
          session |-> fetch_attempt(symbol_of(ticker), 0, outcomes, history, session).session]
    ELSE fetch_attempt(symbol_of(ticker), 0, outcomes, history, session)

\* get_stock_data_safe that serves a ticker it has fetched before from a
\* stale copy (the history without its last bar)
get_stock_data_safe_stale(ticker, outcomes, history, session) ==
    IF symbol_of(ticker) \in DOMAIN session.last_api_call /\ Len(history) > 1
    THEN fetch_attempt(symbol_of(ticker), 0, outcomes,
                       SubSeq(history, 1, Len(history) - 1), session)
    ELSE fetch_attempt(symbol_of(ticker), 0, outcomes, history, session)

\* get_stock_data_safe that gives up after its first attempt
get_stock_data_safe_no_retry(ticker, outcomes, history, session) ==
    fetch_attempt(symbol_of(ticker), 2, << outcomes[1], outcomes[1], outcomes[1] >>, history, session)

\* get_stock_data_safe: outcomes[a] is what yfinance does at attempt a
\* (raise, return an empty frame, return the history of the ticker)
get_stock_data_safe(ticker, outcomes, history, session) ==
    fetch_attempt(symbol_of(ticker), 0, outcomes, history, session)

\* ------------------------------------------------------------------------
\* Position analysis
\* ------------------------------------------------------------------------
\* the alert list and overall_status of smart_analyze_position
alerts_of(sl_risk, sl_alert_threshold) ==
    IF sl_risk >= 80
    THEN << [priority |-> "CRITICAL", type |-> "HIGH RISK",
             message |-> sl_risk, action |-> "EXIT NOW"] >>
    ELSE IF sl_risk >= sl_alert_threshold
    THEN << [priority |-> "HIGH", type |-> "MODERATE RISK",
             message |-> sl_risk, action |-> "WATCH CLOSELY"] >>
    ELSE << >>

\* overall_status with the two tests in the other order
overall_status_of_threshold_first(sl_risk, sl_alert_threshold) ==
    IF sl_risk >= sl_alert_threshold THEN "WARNING"
    ELSE IF sl_risk >= 80 THEN "CRITICAL"
    ELSE "OK"

overall_status_of(sl_risk, sl_alert_threshold) ==
    IF sl_risk >= 80 THEN "CRITICAL"
    ELSE IF sl_risk >= sl_alert_threshold THEN "WARNING"
    ELSE "OK"

\* the statements of the try block that divide raise ZeroDivisionError
analysis_raises(entry_price, current_price, prev_close) ==
    prev_close = 0 \/ entry_price = 0 \/ current_price = 0

smart_analyze_position(ticker, position_type, entry_price, quantity, stop_loss, target1, target2, sl_alert_threshold, df) ==
    IF IsRaised(df) THEN Raised
    ELSE IF IsNone(df) \/ Empty(df) THEN None
    ELSE
    LET close == df.Close
        current_price == iloc_last(close)
        prev_close == IF Len(close) > 1 THEN close[Len(close) - 1] ELSE current_price
    IN  IF analysis_raises(entry_price, current_price, prev_close) THEN None
        ELSE
        LET day_change == Pct(current_price - prev_close, prev_close)
            pnl_percent == IF position_type = "LONG"
                           THEN Pct(current_price - entry_price, entry_price)
                           ELSE Pct(entry_price - current_price, entry_price)
            pnl_amount == IF position_type = "LONG"
                          THEN (current_price - entry_price) * quantity
                          ELSE (entry_price - current_price) * quantity
            rsi0 == calculate_rsi(close, RsiPeriod)
            rsi == IF IsNaN(rsi0) THEN 5000 ELSE rsi0
            macd_hist == calculate_macd(close)
            macd_signal == IF macd_hist > 0 THEN "BULLISH" ELSE "BEARISH"
            momentum == calculate_momentum_score(df)
            sl == predict_sl_risk(df, current_price, stop_loss, position_type, entry_price)
            sl_risk == sl.risk_score
            alerts == alerts_of(sl_risk, sl_alert_threshold)
            overall_status == overall_status_of(sl_risk, sl_alert_threshold)
        IN  [ticker |-> ticker,
             position_type |-> position_type,
             entry_price |-> entry_price,
             current_price |-> current_price,
             quantity |-> quantity,
             pnl_percent |-> pnl_percent,
             pnl_amount |-> pnl_amount,
             day_change |-> day_change,
             stop_loss |-> stop_loss,
             target1 |-> target1,
             target2 |-> target2,
             rsi |-> rsi,
             macd_hist |-> macd_hist,
             macd_signal |-> macd_signal,
             momentum_score |-> momentum.score,
             momentum_trend |-> momentum.trend,
             sl_risk |-> sl_risk,
             sl_reasons |-> sl.reasons,
             sl_recommendation |-> sl.recommendation,
             alerts |-> alerts,
             overall_status |-> overall_status,
             df |-> df]

\* ------------------------------------------------------------------------
\* Market health
\* ------------------------------------------------------------------------
RECURSIVE sum_from(_, _)
sum_from(xs, t) == IF t > Len(xs) THEN 0 ELSE xs[t] + sum_from(xs, t + 1)

\* Series.rolling(window).mean().iloc[-1] in 1/FP: NaN below window bars
rolling_mean(xs, window) ==
    IF Len(xs) < window THEN NaN
    ELSE (FP * sum_from(xs, Len(xs) - window + 1)) \div window

health_status_of(health_score) ==
    IF health_score >= 70 THEN "BULLISH"
    ELSE IF health_score >= 50 THEN "NEUTRAL"
    ELSE "BEARISH"

\* get_market_health(): nifty_df and vix_df are what yfinance answers for
\* ^NSEI (1mo) and ^INDIAVIX (5d); Raised when the call raises
get_market_health(nifty_df, vix_df) ==
    IF IsRaised(nifty_df) THEN None
    ELSE IF Empty(nifty_df) THEN None
    ELSE IF Len(nifty_df.Close) < 2 THEN None
    ELSE IF nifty_df.Close[Len(nifty_df.Close) - 1] = 0 THEN None
    ELSE IF IsRaised(vix_df) THEN None
    ELSE
    LET close == nifty_df.Close
        nifty_price == iloc_last(close)
        nifty_change == Pct(nifty_price - close[Len(close) - 1], close[Len(close) - 1])
        nifty_sma20 == rolling_mean(close, 20)
        nifty_sma50 == IF Len(close) >= 50 THEN rolling_mean(close, 50) ELSE nifty_sma20
        rsi0 == calculate_rsi(close, RsiPeriod)
        nifty_rsi == IF IsNaN(rsi0) THEN 5000 ELSE rsi0
        vix_value == IF ~Empty(vix_df) THEN iloc_last(vix_df.Close) ELSE 15
        health_score ==
            50
            + (IF Gt(FP * nifty_price, nifty_sma20) THEN 15 ELSE -15)
            + (IF Gt(FP * nifty_price, nifty_sma50) THEN 10 ELSE 0)
            + (IF nifty_rsi > 5500 THEN 15 ELSE IF nifty_rsi < 3500 THEN -15 ELSE 0)
            + (IF vix_value < 15 THEN 10 ELSE IF vix_value > 25 THEN -20 ELSE 0)
            + (IF Gt(nifty_sma20, nifty_sma50) THEN 10 ELSE 0)
        clamped == Max(0, Min(100, health_score))
    IN  [status |-> health_status_of(clamped),
         health_score |-> clamped,
         nifty_price |-> nifty_price,
         nifty_change |-> nifty_change,
         nifty_rsi |-> nifty_rsi,
         vix |-> vix_value]

\* ------------------------------------------------------------------------
\* Emergency exit
\* ------------------------------------------------------------------------
\* the three rules of detect_emergency_exit, in the order they are tested
bearish_rule(result, market_health) ==
    /\ ~IsNone(market_health)
    /\ market_health.status = "BEARISH"
    /\ Get(result, "pnl_percent", 0) < -200

gap_rule(result) ==
    IF Get(result, "position_type", "") = "LONG"
    THEN 100 * Get(result, "day_low", 0) < 98 * Get(result, "stop_loss", 0)
    ELSE 100 * Get(result, "day_high", 0) > 102 * Get(result, "stop_loss", 0)

vix_rule(result, market_health) ==
    /\ ~IsNone(market_health)
    /\ Get(market_health, "vix", 0) > 25
    /\ Get(result, "sl_risk", 0) > 60

gap_reason(result) ==
    IF Get(result, "position_type", "") = "LONG"
    THEN "Gap down: Day low below SL" ELSE "Gap up: Day high above SL"

\* detect_emergency_exit where the gap test replaces the flags of the rule before it
detect_emergency_exit_overwrite(result, market_health) ==
    LET reasons == (IF gap_rule(result) THEN << gap_reason(result) >> ELSE << >>)
                   \o (IF vix_rule(result, market_health)
                       THEN << "VIX spike + High SL risk" >> ELSE << >>)
    IN  [emergency |-> reasons # << >>,
         reasons |-> reasons,
         urgency |-> IF reasons # << >> THEN "CRITICAL" ELSE "NORMAL"]

\* detect_emergency_exit that tests the stop itself instead of the 2% band
detect_emergency_exit_noband(result, market_health) ==
    LET gap == IF Get(result, "position_type", "") = "LONG"
               THEN Get(result, "day_low", 0) < Get(result, "stop_loss", 0) - 5
               ELSE Get(result, "day_high", 0) > Get(result, "stop_loss", 0) + 5
        reasons == (IF bearish_rule(result, market_health)
                    THEN << "Bearish market + Position down" >> ELSE << >>)
                   \o (IF gap THEN << gap_reason(result) >> ELSE << >>)
                   \o (IF vix_rule(result, market_health)
                       THEN << "VIX spike + High SL risk" >> ELSE << >>)
    IN  [emergency |-> reasons # << >>,
         reasons |-> reasons,
         urgency |-> IF reasons # << >> THEN "CRITICAL" ELSE "NORMAL"]

detect_emergency_exit(result, market_health) ==
    LET r1 == bearish_rule(result, market_health)
        r2 == gap_rule(result)
        r3 == vix_rule(result, market_health)
        reasons == (IF r1 THEN << "Bearish market + Position down" >> ELSE << >>)
                   \o (IF r2 THEN << gap_reason(result) >> ELSE << >>)
                   \o (IF r3 THEN << "VIX spike + High SL risk" >> ELSE << >>)
    IN  [emergency |-> r1 \/ r2 \/ r3,
         reasons |-> reasons,
         urgency |-> IF r1 \/ r2 \/ r3 THEN "CRITICAL" ELSE "NORMAL"]

\* ------------------------------------------------------------------------
\* Portfolio aggregates (portfolio_df is the sequence of rows)
\* ------------------------------------------------------------------------
RECURSIVE total_invested_of(_, _)
total_invested_of(rows, k) ==
    IF k > Len(rows) THEN 0
    ELSE rows[k].Entry_Price * rows[k].Quantity + total_invested_of(rows, k + 1)

RECURSIVE total_at_risk_of(_, _)
total_at_risk_of(rows, k) ==
    IF k > Len(rows) THEN 0
    ELSE Abs(rows[k].Entry_Price - rows[k].Stop_Loss) * rows[k].Quantity
         + total_at_risk_of(rows, k + 1)

RECURSIVE total_potential_of(_, _)
total_potential_of(rows, k) ==
    IF k > Len(rows) THEN 0
    ELSE Abs(rows[k].Target_1 - rows[k].Entry_Price) * rows[k].Quantity
         + total_potential_of(rows, k + 1)

\* ratio in hundredths
rating_of(ratio) ==
    IF ratio >= 300 THEN "EXCELLENT"
    ELSE IF ratio >= 200 THEN "GOOD"
    ELSE IF ratio >= 100 THEN "FAIR"
    ELSE "POOR"

\* the per-position ratios of the rows from k on, in hundredths
RECURSIVE row_ratio_sum(_, _)
row_ratio_sum(rows, k) ==
    IF k > Len(rows) THEN 0
    ELSE (IF rows[k].Entry_Price # rows[k].Stop_Loss
          THEN (100 * Abs(rows[k].Target_1 - rows[k].Entry_Price))
                   \div Abs(rows[k].Entry_Price - rows[k].Stop_Loss)
          ELSE 0)
         + row_ratio_sum(rows, k + 1)

\* calculate_portfolio_risk whose ratio is the mean of the per-position ratios
calculate_portfolio_risk_mean_ratio(portfolio_df) ==
    IF Len(portfolio_df) = 0 THEN None
    ELSE
    LET total_invested == total_invested_of(portfolio_df, 1)
        total_at_risk == total_at_risk_of(portfolio_df, 1)
        total_potential_gain == total_potential_of(portfolio_df, 1)
        risk_reward_ratio == row_ratio_sum(portfolio_df, 1) \div Len(portfolio_df)
    IN  [total_invested |-> total_invested,
         total_at_risk |-> total_at_risk,
         total_potential |-> total_potential_gain,
         risk_percent |-> IF total_invested > 0
                          THEN Pct(total_at_risk, total_invested) ELSE 0,
         reward_percent |-> IF total_invested > 0
                            THEN Pct(total_potential_gain, total_invested) ELSE 0,
         ratio |-> risk_reward_ratio,
         rating |-> rating_of(risk_reward_ratio)]

calculate_portfolio_risk(portfolio_df) ==
    IF Len(portfolio_df) = 0 THEN None
    ELSE
    LET total_invested == total_invested_of(portfolio_df, 1)
        total_at_risk == total_at_risk_of(portfolio_df, 1)
        total_potential_gain == total_potential_of(portfolio_df, 1)
        risk_reward_ratio == IF total_at_risk > 0
                             THEN (100 * total_potential_gain) \div total_at_risk ELSE 0
    IN  [total_invested |-> total_invested,
         total_at_risk |-> total_at_risk,
         total_potential |-> total_potential_gain,
         risk_percent |-> IF total_invested > 0
                          THEN Pct(total_at_risk, total_invested) ELSE 0,
         reward_percent |-> IF total_invested > 0
                            THEN Pct(total_potential_gain, total_invested) ELSE 0,
         ratio |-> risk_reward_ratio,
         rating |-> rating_of(risk_reward_ratio)]

\* sector_map.get(ticker, 'OTHER')
sector_of(ticker) ==
    IF ticker \in {"TCS", "INFY", "WIPRO", "HCL"} THEN "IT"
    ELSE IF ticker \in {"RELIANCE", "ONGC"} THEN "ENERGY"
    ELSE IF ticker \in {"HDFC", "ICICI", "AXIS"} THEN "FINANCE"
    ELSE IF ticker \in {"BAJAJ", "MARUTI"} THEN "AUTO"
    ELSE IF ticker \in {"ITC", "BRITANNIA"} THEN "CONSUMER"
    ELSE "OTHER"

RECURSIVE quantity_sum(_, _)
quantity_sum(rows, k) ==
    IF k > Len(rows) THEN 0 ELSE rows[k].Quantity + quantity_sum(rows, k + 1)

RECURSIVE entry_price_sum(_, _)
entry_price_sum(rows, k) ==
    IF k > Len(rows) THEN 0 ELSE rows[k].Entry_Price + entry_price_sum(rows, k + 1)

RECURSIVE sector_value(_, _, _)
sector_value(rows, sector, k) ==
    IF k > Len(rows) THEN 0
    ELSE (IF sector_of(rows[k].Ticker) = sector
          THEN rows[k].Quantity * rows[k].Entry_Price ELSE 0)
         + sector_value(rows, sector, k + 1)

\* analyze_sector_exposure: total_value = Quantity.sum() * Entry_Price.mean(),
\* so value / total_value * 100 = value * n * 100 / (sum(Quantity) * sum(Entry_Price));
\* percentages are kept in hundredths, the warnings are a set
analyze_sector_exposure(portfolio_df) ==
    LET n == Len(portfolio_df)
        denom == quantity_sum(portfolio_df, 1) * entry_price_sum(portfolio_df, 1)
        sectors == { sector_of(portfolio_df[k].Ticker) : k \in 1..n }
        sector_exposure == [sec \in sectors |-> sector_value(portfolio_df, sec, 1)]
        over(sec) == sector_exposure[sec] * n * 100 > 40 * denom
        high(sec) == sector_exposure[sec] * n * 100 > 30 * denom
    IN  [exposure |-> sector_exposure,
         percentage |-> [sec \in sectors |-> (sector_exposure[sec] * n * 10000) \div denom],
         warnings |-> { [sector |-> sec, level |-> "OVER-CONCENTRATED"] :
                            sec \in { x \in sectors : over(x) } }
                      \cup { [sector |-> sec, level |-> "HIGH concentration"] :
                            sec \in { x \in sectors : high(x) /\ ~over(x) } }]

CorrelationLimit == 10

\* portfolio_df['Ticker'].unique()[:10]: first occurrences, in order
RECURSIVE unique_tickers(_, _, _)
unique_tickers(rows, k, acc) ==
    IF k > Len(rows) \/ Len(acc) >= CorrelationLimit THEN acc
    ELSE unique_tickers(rows, k + 1,
            IF \E j \in 1..Len(acc) : acc[j] = rows[k].Ticker
            THEN acc ELSE Append(acc, rows[k].Ticker))

\* the value of calculate_correlation_matrix once the loop over the tickers
\* has filled prices_dict: the tickers that label the matrix, or None
correlation_of(prices_dict) ==
    IF Len(prices_dict) < 2 THEN None ELSE [columns |-> prices_dict]

\* the loop of calculate_correlation_matrix over tickers[k..]: the tickers
\* that enter prices_dict and the session state the fetches leave
RECURSIVE correlation_loop(_, _, _, _, _, _)
correlation_loop(tickers, k, outcomes, histories, session, prices_dict) ==
    IF k > Len(tickers) THEN [prices_dict |-> prices_dict, session |-> session, raised |-> FALSE]
    ELSE LET fetched == get_stock_data_safe(tickers[k], outcomes, histories[tickers[k]], session)
         IN  IF IsRaised(fetched.df)
             THEN [prices_dict |-> prices_dict, session |-> fetched.session, raised |-> TRUE]
             ELSE correlation_loop(tickers, k + 1, outcomes, histories, fetched.session,
                     IF IsNone(fetched.df) \/ Empty(fetched.df) THEN prices_dict
                     ELSE Append(prices_dict, tickers[k]))

\* calculate_correlation_matrix(portfolio_df): histories[t] is what the
\* data provider holds for ticker t
calculate_correlation_matrix(portfolio_df, outcomes, histories, session) ==
    IF Len(portfolio_df) < 2
    THEN [correlation |-> None, prices_dict |-> << >>, session |-> session]
    ELSE LET tickers == unique_tickers(portfolio_df, 1, << >>)
             loop == correlation_loop(tickers, 1, outcomes, histories, session, << >>)
         IN  [correlation |-> IF loop.raised THEN None ELSE correlation_of(loop.prices_dict),
              prices_dict |-> loop.prices_dict,
              session |-> loop.session]

\* ------------------------------------------------------------------------
\* State
\* ------------------------------------------------------------------------
VARIABLES
    settings,        \* render_sidebar(): the thresholds of the session
    last_api_call,   \* st.session_state.last_api_call
    api_call_count,  \* st.session_state.api_call_count
    market,          \* the closes the data provider holds for each ticker
    market_health,   \* the value of get_market_health() of the current run
    pos,             \* a portfolio row analysed on its own
    result,          \* the value of the latest smart_analyze_position call for pos
    prev_result,     \* the value of the call before it
    analyses,        \* the number of smart_analyze_position calls made for pos
    emergency_input, \* the arguments of the latest detect_emergency_exit call
    emergency,       \* the value of that call
    portfolio,       \* load_portfolio(): the rows of the user
    pc,              \* where main() is
    i,               \* main(): the row the loop is at
    results,         \* main(): results
    missing,         \* the rows for which get_stock_data_safe gave no data
    portfolio_risk,  \* main(): portfolio_risk
    prices_dict,     \* calculate_correlation_matrix: the tickers in prices_dict
    corr_analysis,   \* main(): corr_analysis['correlation']
    sector_analysis, \* main(): sector_analysis
    emergencies,     \* main(): detect_emergency_exit(r, market_health) per result
    bars,            \* a price frame (High, Low, Close) handed to an indicator
    indicator,       \* the latest indicator call on bars: its function, arguments and value
    portfolio_trades, \* the rows of the table portfolio_trades
    positions,       \* the rows of the table positions
    trade_history,   \* the rows of the table trade_history
    performance_stats, \* the rows of the table performance_stats, by user_id
    closed_trades,   \* how many calls closed a position, by user_id
    store_call,      \* the latest call on a table: its function, the user it is made for, its outcome
    users,           \* the rows of the table users, by username
    session_tokens,  \* the rows of the table session_tokens
    password_reset_tokens, \* the rows of the table password_reset_tokens
    now,             \* datetime.now(), in minutes
    issued,          \* how many tokens secrets.token_urlsafe has given
    auth_state,      \* st.session_state of a browser session: the keys of auth_ui
    calls,           \* the calls of auth_module in progress, by connection
    auth_call        \* the latest call of auth_module or auth_ui that returned, and its result

sessionVars == << last_api_call, api_call_count >>

positionVars == << pos, result, prev_result, analyses, emergency_input, emergency >>

mainVars == << portfolio, pc, i, results, missing, portfolio_risk, prices_dict,
               corr_analysis, sector_analysis, emergencies >>

closeVars == << trade_history, performance_stats, closed_trades, store_call >>

authVars == << users, session_tokens, password_reset_tokens, now, issued, auth_state, calls,
              auth_call >>

extraVars == << bars, indicator, portfolio_trades, positions, closeVars, authVars >>

vars == << settings, last_api_call, api_call_count, market, market_health,
           pos, result, prev_result, analyses, emergency_input, emergency,
           portfolio, pc, i, results, missing, portfolio_risk, prices_dict,
           corr_analysis, sector_analysis, emergencies,
           bars, indicator, portfolio_trades, positions,
           trade_history, performance_stats, closed_trades, store_call,
           users, session_tokens, password_reset_tokens, now, issued, auth_state, calls,
           auth_call >>

session_state == [last_api_call |-> last_api_call, api_call_count |-> api_call_count]

\* ------------------------------------------------------------------------
\* Inputs
\* ------------------------------------------------------------------------
Row(ticker, position, entry, qty, sl, t1, t2) ==
    [Ticker |-> ticker, Position |-> position, Entry_Price |-> entry,
     Quantity |-> qty, Stop_Loss |-> sl, Target_1 |-> t1, Target_2 |-> t2]

\* well-formed rows: stop < entry < target when LONG, the reverse when SHORT
PositionRows ==
    { Row("TCS", "LONG", 102, 10, 100, 103, 104),
      Row("INFY", "SHORT", 101, 5, 103, 100, 99) }

\* a row whose ticker the data provider does not know
UnknownRow == Row("XYZ.NS", "LONG", 50, 4, 45, 60, 66)

Tickers == {"TCS", "INFY", "XYZ.NS"}

\* closes around the stops and targets of PositionRows
Prices == 99..104

\* the slider of render_sidebar: 30..90
Thresholds == {30, 50}

BaseCloses == << 102, 101, 103, 102, 104, 102, 101, 103, 102, 101, 102, 103 >>

MarketWith(closes) == [t \in Tickers |-> IF t = "XYZ.NS" THEN << >> ELSE closes]

Ramp(n, start, step) == [t \in 1..n |-> start + step * (t - 1)]

\* what yfinance answers for ^NSEI over a month
NiftyFeeds ==
    { Raised, DataFrame(<< >>), DataFrame(<< 200 >>),
      DataFrame(Ramp(15, 200, 2)), DataFrame(Ramp(21, 200, 2)),
      DataFrame(Ramp(21, 260, -2)), DataFrame(Ramp(21, 200, 0)),
      DataFrame(Ramp(20, 200, 1) \o << 190 >>) }

\* what yfinance answers for ^INDIAVIX
VixFeeds ==
    { Raised, DataFrame(<< >>), DataFrame(<< 10 >>), DataFrame(<< 20 >>),
      DataFrame(<< 30 >>) }

\* day ranges a caller may add to a result
DayRanges == { [day_low |-> 97, day_high |-> 106], [day_low |-> 98, day_high |-> 105] }

IdleMain ==
    /\ portfolio = << >>
    /\ pc = "idle"
    /\ i = 0
    /\ results = << >>
    /\ missing = {}
    /\ portfolio_risk = None
    /\ prices_dict = << >>
    /\ corr_analysis = None
    /\ sector_analysis = None
    /\ emergencies = << >>

\* NULL in a column that holds a time: before every time
Null == 0 - 1

\* no account, no token, nobody logged in and no call in progress
IdleAuth ==
    /\ users = << >>
    /\ session_tokens = {}
    /\ password_reset_tokens = {}
    /\ now = 0
    /\ issued = 0
    /\ auth_state = None
    /\ calls = << >>
    /\ auth_call = None

\* nothing closed yet and no call made on a table
IdleClose ==
    /\ trade_history = << >>
    /\ performance_stats = << >>
    /\ closed_trades = [u \in 1..2 |-> 0]
    /\ store_call = None

\* no indicator call made, both tables empty
IdleExtra ==
    /\ bars = [High |-> << >>, Low |-> << >>, Close |-> << >>]
    /\ indicator = None
    /\ portfolio_trades = << >>
    /\ positions = << >>
    /\ IdleClose
    /\ IdleAuth

\* ------------------------------------------------------------------------
\* One position followed over time
\* ------------------------------------------------------------------------
InitPosition ==
    /\ settings \in [sl_risk_threshold : Thresholds]
    /\ last_api_call = << >>
    /\ api_call_count = 0
    /\ \E p \in Prices : market = MarketWith(Append(BaseCloses, p))
    /\ market_health = None
    /\ pos \in PositionRows
    /\ result = None
    /\ prev_result = None
    /\ analyses = 0
    /\ emergency_input = None
    /\ emergency = None
    /\ IdleMain
    /\ IdleExtra

\* the market closes another bar
Tick(p) ==
    /\ Len(market[pos.Ticker]) < Len(BaseCloses) + 1 + MaxTicks
    /\ market' = [market EXCEPT ![pos.Ticker] = Append(@, p)]
    /\ UNCHANGED << extraVars, settings, sessionVars, market_health, positionVars, mainVars >>

\* one call of smart_analyze_position for the row, as main makes it
Analyze(outcomes) ==
    /\ api_call_count + 3 <= MaxApiCalls
    /\ ~IsRaised(result)
    /\ LET fetched == get_stock_data_safe(pos.Ticker, outcomes, market[pos.Ticker],
                                          session_state)
       IN  /\ result' = smart_analyze_position(pos.Ticker, pos.Position, pos.Entry_Price,
                            pos.Quantity, pos.Stop_Loss, pos.Target_1, pos.Target_2,
                            settings.sl_risk_threshold, fetched.df)
           /\ last_api_call' = fetched.session.last_api_call
           /\ api_call_count' = fetched.session.api_call_count
    /\ prev_result' = result
    /\ analyses' = analyses + 1
    /\ UNCHANGED << extraVars, settings, market, market_health, pos, emergency_input, emergency,
                    mainVars >>

NextPosition ==
    \/ \E p \in Prices : Tick(p)
    \/ \E outcomes \in FetchOutcomes : Analyze(outcomes)

SpecPosition == InitPosition /\ [][NextPosition]_vars

\* ------------------------------------------------------------------------
\* One position, the market health and the emergency detector
\* ------------------------------------------------------------------------
InitEmergency ==
    /\ settings \in [sl_risk_threshold : {50}]
    /\ last_api_call = << >>
    /\ api_call_count = 0
    /\ \E p \in Prices : market = MarketWith(BaseCloses \o << 102, p >>)
    /\ market_health = None
    /\ pos \in PositionRows
    /\ result = None
    /\ prev_result = None
    /\ analyses = 0
    /\ emergency_input = None
    /\ emergency = None
    /\ IdleMain
    /\ IdleExtra

\* get_market_health() at the start of a run
MarketHealth(nifty_df, vix_df) ==
    /\ IsNone(result)
    /\ market_health' = get_market_health(nifty_df, vix_df)
    /\ UNCHANGED << extraVars, settings, sessionVars, market, positionVars, mainVars >>

\* detect_emergency_exit on the result of the analysis, with or without
\* the day's range among its keys
DetectEmergency(extra) ==
    /\ ~IsNone(result)
    /\ ~IsRaised(result)
    /\ emergency_input' = [result |-> extra @@ result, market_health |-> market_health]
    /\ emergency' = detect_emergency_exit(extra @@ result, market_health)
    /\ UNCHANGED << extraVars, settings, sessionVars, market, market_health, pos, result,
                    prev_result, analyses, mainVars >>

NextEmergency ==
    \/ \E n \in NiftyFeeds : \E v \in VixFeeds : MarketHealth(n, v)
    \/ \E outcomes \in FetchOutcomes : Analyze(outcomes)
    \/ \E extra \in DayRanges \cup {<< >>} : DetectEmergency(extra)

SpecEmergency == InitEmergency /\ [][NextEmergency]_vars

\* ------------------------------------------------------------------------
\* main(): one refresh cycle over the portfolio
\* ------------------------------------------------------------------------
BatchRows == PositionRows \cup {UnknownRow}

RECURSIVE SeqsUpTo(_, _)
SeqsUpTo(S, n) ==
    IF n = 0 THEN { << >> }
    ELSE SeqsUpTo(S, n - 1)
         \cup { Append(q, x) : q \in { r \in SeqsUpTo(S, n - 1) : Len(r) = n - 1 }, x \in S }

\* what yfinance does in the three attempts of one fetch during a cycle
BatchOutcomes ==
    { << "data", "data", "data" >>, << "raise", "empty", "data" >>,
      << "empty", "raise", "raise" >>, << "raise", "raise", "empty" >> }

BatchNifty == { DataFrame(<< >>), DataFrame(Ramp(21, 200, 2)), DataFrame(Ramp(21, 260, -2)) }

BatchVix == { DataFrame(<< 10 >>), DataFrame(<< 30 >>) }

Init ==
    /\ settings \in [sl_risk_threshold : {50}]
    /\ last_api_call = << >>
    /\ api_call_count = 0
    /\ \E p \in {99, 103} : market = MarketWith(Append(BaseCloses, p))
    /\ market_health = None
    /\ pos = UnknownRow
    /\ result = None
    /\ prev_result = None
    /\ analyses = 0
    /\ emergency_input = None
    /\ emergency = None
    /\ portfolio \in SeqsUpTo(BatchRows, MaxPositions)
    /\ pc = "start"
    /\ i = 0
    /\ results = << >>
    /\ missing = {}
    /\ portfolio_risk = None
    /\ prices_dict = << >>
    /\ corr_analysis = None
    /\ sector_analysis = None
    /\ emergencies = << >>
    /\ IdleExtra

\* main up to the loop: market health, load_portfolio, the empty-portfolio return
MainStart(nifty_df, vix_df) ==
    /\ pc = "start"
    /\ market_health' = get_market_health(nifty_df, vix_df)
    /\ IF Len(portfolio) = 0
       THEN pc' = "no_positions" /\ i' = i
       ELSE pc' = "analyze" /\ i' = 1
    /\ UNCHANGED << extraVars, settings, sessionVars, market, positionVars, portfolio, results,
                    missing, portfolio_risk, prices_dict, corr_analysis,
                    sector_analysis, emergencies >>

\* one iteration of the loop of main over the rows, and what follows the
\* last one: the return when no row gave a result
AnalyzeRow(outcomes) ==
    /\ pc = "analyze"
    /\ LET row == portfolio[i]
           fetched == get_stock_data_safe(row.Ticker, outcomes, market[row.Ticker],
                                          session_state)
           r == smart_analyze_position(row.Ticker, row.Position, row.Entry_Price,
                    row.Quantity, row.Stop_Loss, row.Target_1, row.Target_2,
                    settings.sl_risk_threshold, fetched.df)
           results1 == IF IsNone(r) THEN results ELSE Append(results, r)
       IN  /\ last_api_call' = fetched.session.last_api_call
           /\ api_call_count' = fetched.session.api_call_count
           /\ IF IsRaised(r)
              THEN /\ pc' = "exception"
                   /\ UNCHANGED << i, results, missing >>
              ELSE /\ missing' = IF IsNone(fetched.df) THEN missing \cup {i} ELSE missing
                   /\ results' = results1
                   /\ i' = i + 1
                   /\ pc' = IF i < Len(portfolio) THEN "analyze"
                            ELSE IF results1 = << >> THEN "no_results"
                            ELSE "risk"
    /\ UNCHANGED << extraVars, settings, market, market_health, positionVars, portfolio,
                    portfolio_risk, prices_dict, corr_analysis, sector_analysis,
                    emergencies >>

\* portfolio_risk = calculate_portfolio_risk(portfolio), and the entry of
\* calculate_correlation_matrix: None at once for fewer than two rows
PortfolioRisk ==
    /\ pc = "risk"
    /\ portfolio_risk' = calculate_portfolio_risk(portfolio)
    /\ prices_dict' = << >>
    /\ IF Len(portfolio) < 2
       THEN corr_analysis' = None /\ pc' = "sector" /\ i' = i
       ELSE corr_analysis' = corr_analysis /\ pc' = "corr" /\ i' = 1
    /\ UNCHANGED << extraVars, settings, sessionVars, market, market_health, positionVars,
                    portfolio, results, missing, sector_analysis, emergencies >>

\* one iteration of the loop of calculate_correlation_matrix over the
\* tickers, and the matrix after the last one; an exception gives None
CorrelationFetch(outcomes) ==
    /\ pc = "corr"
    /\ LET tickers == unique_tickers(portfolio, 1, << >>)
           ticker == tickers[i]
           fetched == get_stock_data_safe(ticker, outcomes, market[ticker], session_state)
           dict1 == IF IsNone(fetched.df) \/ IsRaised(fetched.df) THEN prices_dict
                    ELSE Append(prices_dict, ticker)
       IN  /\ last_api_call' = fetched.session.last_api_call
           /\ api_call_count' = fetched.session.api_call_count
           /\ prices_dict' = dict1
           /\ IF IsRaised(fetched.df)
              THEN corr_analysis' = None /\ pc' = "sector" /\ i' = i
              ELSE IF i < Len(tickers)
              THEN corr_analysis' = corr_analysis /\ pc' = "corr" /\ i' = i + 1
              ELSE corr_analysis' = correlation_of(dict1) /\ pc' = "sector" /\ i' = i
    /\ UNCHANGED << extraVars, settings, market, market_health, positionVars, portfolio, results,
                    missing, portfolio_risk, sector_analysis, emergencies >>

\* sector_analysis = analyze_sector_exposure(portfolio) and the display loop
\* with detect_emergency_exit(r, market_health) for every result
SectorAndDisplay ==
    /\ pc = "sector"
    /\ sector_analysis' = analyze_sector_exposure(portfolio)
    /\ emergencies' = [k \in 1..Len(results) |->
                          detect_emergency_exit(results[k], market_health)]
    /\ pc' = "done"
    /\ UNCHANGED << extraVars, settings, sessionVars, market, market_health, positionVars,
                    portfolio, i, results, missing, portfolio_risk, prices_dict,
                    corr_analysis >>

Next ==
    \/ \E n \in BatchNifty : \E v \in BatchVix : MainStart(n, v)
    \/ \E outcomes \in BatchOutcomes : AnalyzeRow(outcomes)
    \/ PortfolioRisk
    \/ \E outcomes \in BatchOutcomes : CorrelationFetch(outcomes)
    \/ SectorAndDisplay

Spec == Init /\ [][Next]_vars

\* ------------------------------------------------------------------------
\* The portfolio reports, each applied to a portfolio on its own
\* ------------------------------------------------------------------------
\* rows whose risk, reward and value sit at the thresholds of the reports;
\* the ITC row has its stop at the entry price (nothing at risk)
ReportRows ==
    { Row("TCS", "LONG", 100, 2, 90, 130, 140),
      Row("RELIANCE", "LONG", 100, 3, 90, 120, 130),
      Row("HDFC", "SHORT", 100, 7, 110, 90, 80),
      Row("INFY", "LONG", 102, 10, 100, 103, 104),
      Row("ITC", "LONG", 100, 1, 100, 110, 120),
      UnknownRow }

\* more distinct tickers than the correlation matrix takes
ManyTickers ==
    << "TCS", "INFY", "WIPRO", "HCL", "RELIANCE", "ONGC", "HDFC", "ICICI", "AXIS",
       "BAJAJ", "MARUTI", "ITC" >>

LongPortfolios ==
    { [k \in 1..12 |-> Row(ManyTickers[k], "LONG", 100, 1, 90, 110, 120)],
      [k \in 1..11 |-> Row(ManyTickers[k], "LONG", 100, 1, 90, 110, 120)],
      [k \in 1..12 |-> Row(ManyTickers[IF k = 2 THEN 1 ELSE k], "LONG", 100, 1, 90, 110, 120)] }

ReportTickers == Range(ManyTickers) \cup {"XYZ.NS"}

\* the data provider with history for every ticker but those of without
HistoriesWithout(without) ==
    [t \in ReportTickers |-> IF t \in without \cup {"XYZ.NS"} THEN << >> ELSE BaseCloses]

ReportOutcomes == { << "data", "data", "data" >>, << "raise", "empty", "data" >> }

InitReports ==
    /\ settings \in [sl_risk_threshold : {50}]
    /\ last_api_call = << >>
    /\ api_call_count = 0
    /\ \/ /\ portfolio \in SeqsUpTo(ReportRows, MaxPositions)
          /\ market = HistoriesWithout({})
       \/ /\ portfolio \in LongPortfolios
          /\ \E without \in {{}} \cup { {t} : t \in Range(ManyTickers) } :
                market = HistoriesWithout(without)
    /\ market_health = None
    /\ pos = UnknownRow
    /\ result = None
    /\ prev_result = None
    /\ analyses = 0
    /\ emergency_input = None
    /\ emergency = None
    /\ pc = "reports"
    /\ i = 0
    /\ results = << >>
    /\ missing = {}
    /\ portfolio_risk = None
    /\ prices_dict = << >>
    /\ corr_analysis = None
    /\ sector_analysis = None
    /\ emergencies = << >>
    /\ IdleExtra

\* portfolio_risk = calculate_portfolio_risk(portfolio)
RiskReport ==
    /\ pc = "reports"
    /\ portfolio_risk' = calculate_portfolio_risk(portfolio)
    /\ UNCHANGED << extraVars, settings, sessionVars, market, market_health, positionVars,
                    portfolio, pc, i, results, missing, prices_dict, corr_analysis,
                    sector_analysis, emergencies >>

\* sector_analysis = analyze_sector_exposure(portfolio)
SectorReport ==
    /\ pc = "reports"
    /\ sector_analysis' = analyze_sector_exposure(portfolio)
    /\ UNCHANGED << extraVars, settings, sessionVars, market, market_health, positionVars,
                    portfolio, pc, i, results, missing, portfolio_risk, prices_dict,
                    corr_analysis, emergencies >>

\* the first calculate_correlation_matrix(portfolio) of a session
CorrelationReport(outcomes) ==
    /\ pc = "reports"
    /\ api_call_count = 0
    /\ Len(portfolio) >= 2
    /\ LET matrix == calculate_correlation_matrix(portfolio, outcomes, market, session_state)
       IN  /\ corr_analysis' = matrix.correlation
           /\ prices_dict' = matrix.prices_dict
           /\ last_api_call' = matrix.session.last_api_call
           /\ api_call_count' = matrix.session.api_call_count
    /\ UNCHANGED << extraVars, settings, market, market_health, positionVars, portfolio,
                    pc, i, results, missing, portfolio_risk, sector_analysis, emergencies >>

NextReports ==
    \/ RiskReport
    \/ SectorReport
    \/ \E outcomes \in ReportOutcomes : CorrelationReport(outcomes)

SpecReports == InitReports /\ [][NextReports]_vars

\* ------------------------------------------------------------------------
\* The indicators, each applied to a price frame on its own
\* ------------------------------------------------------------------------
Bar(high, low, close) == [High |-> high, Low |-> low, Close |-> close]

\* the frame of a sequence of bars
Frame(q) ==
    [High |-> [t \in 1..Len(q) |-> q[t].High],
     Low |-> [t \in 1..Len(q) |-> q[t].Low],
     Close |-> [t \in 1..Len(q) |-> q[t].Close]]

\* the frame df with one more bar
WithBar(df, b) ==
    [High |-> Append(df.High, b.High), Low |-> Append(df.Low, b.Low),
     Close |-> Append(df.Close, b.Close)]

\* frames to start from: a flat one, one that swings around 102, a rising
\* one without a pivot, and one too short for pivots; low <= close <= high
StartFrames ==
    { Frame([t \in 1..12 |-> Bar(100, 100, 100)]),
      Frame([t \in 1..12 |-> Bar(BaseCloses[t] + 1, BaseCloses[t] - 1, BaseCloses[t])]),
      Frame([t \in 1..12 |-> Bar(90 + t, 88 + t, 89 + t)]),
      Frame([t \in 1..9 |-> Bar(BaseCloses[t] + 1, BaseCloses[t] - 1, BaseCloses[t])]) }

NextBars == { Bar(100, 100, 100), Bar(99, 97, 98), Bar(103, 101, 102) }

\* stop levels around the closes
StopLevels == 97..103

InitIndicators ==
    /\ settings \in [sl_risk_threshold : {50}]
    /\ last_api_call = << >>
    /\ api_call_count = 0
    /\ market = MarketWith(BaseCloses)
    /\ market_health = None
    /\ pos = UnknownRow
    /\ result = None
    /\ prev_result = None
    /\ analyses = 0
    /\ emergency_input = None
    /\ emergency = None
    /\ IdleMain
    /\ bars \in StartFrames
    /\ indicator = None
    /\ portfolio_trades = << >>
    /\ positions = << >>
    /\ IdleClose
    /\ IdleAuth

\* the frame gets another bar; no indicator has been applied to it yet
NewBar(b) ==
    /\ Len(bars.Close) < MaxBars
    /\ bars' = WithBar(bars, b)
    /\ indicator' = None
    /\ UNCHANGED << settings, sessionVars, market, market_health, positionVars, mainVars,
                    portfolio_trades, positions, closeVars, authVars >>

\* calculate_rsi(df['Close']).iloc[-1]
ApplyRsi ==
    /\ indicator' = [fn |-> "calculate_rsi", df |-> bars,
                     value |-> calculate_rsi(bars.Close, RsiPeriod)]
    /\ UNCHANGED << settings, sessionVars, market, market_health, positionVars, mainVars,
                    bars, portfolio_trades, positions, closeVars, authVars >>

\* find_support_resistance(df)
ApplySupportResistance ==
    /\ indicator' = [fn |-> "find_support_resistance", df |-> bars,
                     value |-> find_support_resistance(bars, LookbackDefault)]
    /\ UNCHANGED << settings, sessionVars, market, market_health, positionVars, mainVars,
                    bars, portfolio_trades, positions, closeVars, authVars >>

\* predict_sl_risk(df, current_price, stop_loss, position_type, entry_price)
\* at the last close of the frame
ApplySlRisk(stop_loss, position_type) ==
    /\ indicator' = [fn |-> "predict_sl_risk", df |-> bars,
                     current_price |-> iloc_last(bars.Close),
                     stop_loss |-> stop_loss,
                     position_type |-> position_type,
                     value |-> predict_sl_risk(bars, iloc_last(bars.Close), stop_loss,
                                               position_type, iloc_last(bars.Close))]
    /\ UNCHANGED << settings, sessionVars, market, market_health, positionVars, mainVars,
                    bars, portfolio_trades, positions, closeVars, authVars >>

NextIndicators ==
    \/ \E b \in NextBars : NewBar(b)
    \/ ApplyRsi
    \/ ApplySupportResistance
    \/ \E stop_loss \in StopLevels : \E position_type \in {"LONG", "SHORT"} :
          ApplySlRisk(stop_loss, position_type)

SpecIndicators == InitIndicators /\ [][NextIndicators]_vars

\* ------------------------------------------------------------------------
\* The store of trades (src/mysql_portfolio.py) and the add-trade form
\* ------------------------------------------------------------------------
\* str.upper() on the strings that are passed around here
upper(s) ==
    CASE s = "tcs" -> "TCS"
      [] s = "long" -> "LONG"
      [] s = "short" -> "SHORT"
      [] OTHER -> s

\* add_trade_mysql: the table after the call; connection is whether
\* get_mysql_connection() gave one.  lastrowid counts the rows, none being
\* deleted here.  Targets are multiples of ten, so target_1 * 1.1 is whole.
\* target_2 is None or a number in a record, [value |-> the number].
add_trade_mysql(connection, user_id, ticker, position, entry_price, quantity, stop_loss, target_1, target_2, status) ==
    IF ~connection THEN portfolio_trades
    ELSE IF upper(position) \notin {"LONG", "SHORT"} THEN portfolio_trades
    ELSE IF entry_price <= 0 \/ stop_loss <= 0 \/ target_1 <= 0 THEN portfolio_trades
    ELSE IF quantity <= 0 THEN portfolio_trades
    ELSE Append(portfolio_trades,
                [id |-> Len(portfolio_trades) + 1,
                 user_id |-> user_id,
                 ticker |-> upper(ticker),
                 position |-> upper(position),
                 entry_price |-> entry_price,
                 quantity |-> quantity,
                 stop_loss |-> stop_loss,
                 target_1 |-> target_1,
                 target_2 |-> IF IsNone(target_2) THEN (target_1 * 11) \div 10
                             ELSE target_2.value,
                 status |-> status])

\* SELECT ... WHERE user_id = %s AND ticker = %s AND status = 'ACTIVE':
\* the rows selected
active_trades(user_id, ticker) ==
    { row \in Range(portfolio_trades) :
        /\ row.user_id = user_id
        /\ row.ticker = upper(ticker)
        /\ row.status = "ACTIVE" }

\* cursor.fetchone(): any one of the rows selected (the query has no
\* ORDER BY), None when there is none
fetchone(selected) == IF selected = {} THEN {None} ELSE selected

\* UPDATE portfolio_trades SET column = value WHERE id = trade_id AND user_id = user_id
update_trade(trade_id, user_id, column, value) ==
    [k \in DOMAIN portfolio_trades |->
        IF portfolio_trades[k].id = trade_id /\ portfolio_trades[k].user_id = user_id
        THEN [portfolio_trades[k] EXCEPT ![column] = value]
        ELSE portfolio_trades[k]]

\* update_stop_loss_mysql, fetched being what fetchone gave (result in the
\* code): the table after
update_stop_loss_mysql(connection, fetched, user_id, new_sl) ==
    IF ~connection THEN portfolio_trades
    ELSE IF IsNone(fetched) THEN portfolio_trades
    ELSE IF new_sl <= 0 THEN portfolio_trades
    ELSE update_trade(fetched.id, user_id, "stop_loss", new_sl)

\* update_target_mysql, fetched being what fetchone gave (result in the
\* code): the table after
update_target_mysql(connection, fetched, user_id, new_target, target_num) ==
    IF ~connection THEN portfolio_trades
    ELSE IF IsNone(fetched) THEN portfolio_trades
    ELSE update_trade(fetched.id, user_id,
                      IF target_num = 1 THEN "target_1" ELSE "target_2", new_target)

\* render_add_trade_form once submitted, for the user of the session: the
\* table after.  The ticker arrives upper-cased from the text input.
render_add_trade_form(connection, user_id, ticker, position, entry_price, quantity, stop_loss, target_1, target_2) ==
    IF ticker = "" THEN portfolio_trades
    ELSE IF entry_price <= 0 THEN portfolio_trades
    ELSE IF stop_loss <= 0 THEN portfolio_trades
    ELSE IF target_1 <= 0 THEN portfolio_trades
    ELSE IF quantity <= 0 THEN portfolio_trades
    ELSE IF position = "LONG" /\ stop_loss >= entry_price THEN portfolio_trades
    ELSE IF position = "LONG" /\ target_1 <= entry_price THEN portfolio_trades
    ELSE IF position # "LONG" /\ stop_loss <= entry_price THEN portfolio_trades
    ELSE IF position # "LONG" /\ target_1 >= entry_price THEN portfolio_trades
    ELSE add_trade_mysql(connection, user_id, ticker, position, entry_price, quantity,
                         stop_loss, target_1,
                         IF target_2 > 0 THEN [value |-> target_2] ELSE None, "ACTIVE")

Users == 1..2

\* what the callers pass: tickers and directions in either case, a
\* direction that is none, prices on both sides of an entry of 100 and a
\* price and a quantity that are not positive
TickerArgs == {"TCS", "tcs"}
PositionArgs == {"LONG", "SHORT", "long", "HOLD"}
EntryArgs == {0, 100}
LevelArgs == {0, 90, 110}
QuantityArgs == {0, 10}

\* a new stop loss may also be the entry itself
NewStopArgs == {0, 100, 110}

\* what the widgets of the form give: min_value keeps the numbers positive
FormTickers == {"", "TCS"}
FormLevels == {90, 110}

InitStore ==
    /\ settings \in [sl_risk_threshold : {50}]
    /\ last_api_call = << >>
    /\ api_call_count = 0
    /\ market = MarketWith(BaseCloses)
    /\ market_health = None
    /\ pos = UnknownRow
    /\ result = None
    /\ prev_result = None
    /\ analyses = 0
    /\ emergency_input = None
    /\ emergency = None
    /\ portfolio = << >>
    /\ pc = "store"
    /\ i = 0
    /\ results = << >>
    /\ missing = {}
    /\ portfolio_risk = None
    /\ prices_dict = << >>
    /\ corr_analysis = None
    /\ sector_analysis = None
    /\ emergencies = << >>
    /\ IdleExtra

\* a caller adds a trade
AddTrade(connection, user_id, ticker, position, entry_price, quantity, stop_loss, target_1) ==
    /\ pc = "store"
    /\ Len(portfolio_trades) < MaxTrades
    /\ portfolio_trades' = add_trade_mysql(connection, user_id, ticker, position, entry_price,
                                           quantity, stop_loss, target_1, None, "ACTIVE")
    /\ UNCHANGED << settings, sessionVars, market, market_health, positionVars, mainVars,
                    bars, indicator, positions, closeVars, authVars >>

\* the user of the session submits the add-trade form
SubmitAddTradeForm(connection, user_id, ticker, position, stop_loss, target_1, target_2) ==
    /\ pc = "store"
    /\ Len(portfolio_trades) < MaxTrades
    /\ portfolio_trades' = render_add_trade_form(connection, user_id, ticker, position, 100, 10,
                                                 stop_loss, target_1, target_2)
    /\ UNCHANGED << settings, sessionVars, market, market_health, positionVars, mainVars,
                    bars, indicator, positions, closeVars, authVars >>

\* update_stop_loss_mysql(user_id, ticker, new_sl)
UpdateStopLoss(connection, user_id, ticker, new_sl) ==
    /\ pc = "store"
    /\ \E fetched \in fetchone(active_trades(user_id, ticker)) :
          portfolio_trades' = update_stop_loss_mysql(connection, fetched, user_id, new_sl)
    /\ UNCHANGED << settings, sessionVars, market, market_health, positionVars, mainVars,
                    bars, indicator, positions, closeVars, authVars >>

\* update_target_mysql(user_id, ticker, new_target, target_num)
UpdateTarget(connection, user_id, ticker, new_target, target_num) ==
    /\ pc = "store"
    /\ \E fetched \in fetchone(active_trades(user_id, ticker)) :
          portfolio_trades' = update_target_mysql(connection, fetched, user_id, new_target,
                                                  target_num)
    /\ UNCHANGED << settings, sessionVars, market, market_health, positionVars, mainVars,
                    bars, indicator, positions, closeVars, authVars >>

NextStore ==
    \/ \E connection \in BOOLEAN, user_id \in Users, ticker \in TickerArgs :
       \E position \in PositionArgs, entry_price \in EntryArgs, quantity \in QuantityArgs :
       \E stop_loss \in LevelArgs, target_1 \in LevelArgs :
          AddTrade(connection, user_id, ticker, position, entry_price, quantity, stop_loss,
                   target_1)
    \/ \E connection \in BOOLEAN, user_id \in Users, ticker \in FormTickers :
       \E position \in {"LONG", "SHORT"} :
       \E stop_loss \in FormLevels, target_1 \in FormLevels, target_2 \in FormLevels :
          SubmitAddTradeForm(connection, user_id, ticker, position, stop_loss, target_1,
                             target_2)
    \/ \E connection \in BOOLEAN, user_id \in Users, ticker \in TickerArgs :
       \E new_sl \in NewStopArgs :
          UpdateStopLoss(connection, user_id, ticker, new_sl)
    \/ \E connection \in BOOLEAN, user_id \in Users, ticker \in TickerArgs :
       \E new_target \in LevelArgs, target_num \in 1..2 :
          UpdateTarget(connection, user_id, ticker, new_target, target_num)

SpecStore == InitStore /\ [][NextStore]_vars

\* ------------------------------------------------------------------------
\* Closing and deleting trades (src/mysql_portfolio.py)
\* ------------------------------------------------------------------------
\* the row of portfolio_trades closed at exit_price with realized_pnl
closed_trade(row, exit_price, realized_pnl) ==
    [f \in DOMAIN row \cup {"exit_price", "realized_pnl"} |->
        IF f = "status" THEN "INACTIVE"
        ELSE IF f = "exit_price" THEN exit_price
        ELSE IF f = "realized_pnl" THEN realized_pnl
        ELSE row[f]]

\* UPDATE portfolio_trades SET status = 'INACTIVE', ... WHERE id = trade_id AND user_id = user_id
close_trade(trade_id, user_id, exit_price, pnl_amount) ==
    [k \in DOMAIN portfolio_trades |->
        IF portfolio_trades[k].id = trade_id /\ portfolio_trades[k].user_id = user_id
        THEN closed_trade(portfolio_trades[k], exit_price, pnl_amount)
        ELSE portfolio_trades[k]]

\* the percentage of profit of a trade left at exit_price
pnl_pct_of(position_type, entry_price, exit_price) ==
    IF position_type = "LONG" THEN Pct(exit_price - entry_price, entry_price)
    ELSE Pct(entry_price - exit_price, entry_price)

\* INSERT INTO trade_history ...
history_insert(fetched, user_id, ticker, exit_price, pnl_amount) ==
    Append(trade_history,
           [user_id |-> user_id, ticker |-> upper(ticker),
            position_type |-> fetched.position,
            entry_price |-> fetched.entry_price, exit_price |-> exit_price,
            quantity |-> fetched.quantity, pnl |-> pnl_amount,
            pnl_percent |-> pnl_pct_of(fetched.position, fetched.entry_price, exit_price)])

\* INSERT INTO performance_stats ... ON DUPLICATE KEY UPDATE ...: user_id is
\* the key of the table
stats_upsert(user_id, pnl_amount) ==
    LET win == IF pnl_amount > 0 THEN 1 ELSE 0
        loss == IF pnl_amount <= 0 THEN 1 ELSE 0
        profit == IF pnl_amount > 0 THEN pnl_amount ELSE 0
        lost == IF pnl_amount < 0 THEN Abs(pnl_amount) ELSE 0
    IN  IF user_id \in DOMAIN performance_stats
        THEN [performance_stats EXCEPT ![user_id] =
                 [total_trades |-> @.total_trades + 1,
                  wins |-> @.wins + win,
                  losses |-> @.losses + loss,
                  total_profit |-> @.total_profit + profit,
                  total_loss |-> @.total_loss + lost]]
        ELSE [u \in DOMAIN performance_stats \cup {user_id} |->
                 IF u = user_id
                 THEN [total_trades |-> 1, wins |-> win, losses |-> loss,
                       total_profit |-> profit, total_loss |-> lost]
                 ELSE performance_stats[u]]

\* the three tables as they are now
tables_now ==
    [portfolio_trades |-> portfolio_trades, trade_history |-> trade_history,
     performance_stats |-> performance_stats]

\* mark_position_inactive_mysql on a connection that commits every
\* statement at once: what failed_at leaves behind stays
mark_position_inactive_mysql_autocommit(connection, fetched, failed_at, user_id, ticker, exit_price, pnl_amount) ==
    IF ~connection \/ failed_at = 1 \/ IsNone(fetched)
    THEN [success |-> FALSE, tables |-> tables_now]
    ELSE [success |-> failed_at = 0,
          tables |->
            [portfolio_trades |-> close_trade(fetched.id, user_id, exit_price, pnl_amount),
             trade_history |-> IF failed_at \in {2, 3} THEN trade_history
                               ELSE history_insert(fetched, user_id, ticker, exit_price,
                                                   pnl_amount),
             performance_stats |-> IF failed_at \in {2, 3, 4} THEN performance_stats
                                   ELSE stats_upsert(user_id, pnl_amount)]]

\* mark_position_inactive_mysql, fetched being what fetchone gave (result
\* in the code) and failed_at the statement at which mysql raises Error (1
\* the SELECT, 2 the UPDATE, 3 and 4 the INSERTs, 5 the commit; 0 none):
\* success and the tables after.  The connection has autocommit off, so the
\* rollback of the handler undoes what ran before the error.
mark_position_inactive_mysql(connection, fetched, failed_at, user_id, ticker, exit_price, pnl_amount) ==
    IF ~connection THEN [success |-> FALSE, tables |-> tables_now]
    ELSE IF failed_at = 1 THEN [success |-> FALSE, tables |-> tables_now]
    ELSE IF IsNone(fetched) THEN [success |-> FALSE, tables |-> tables_now]
    ELSE IF failed_at # 0 THEN [success |-> FALSE, tables |-> tables_now]
    ELSE [success |-> TRUE,
          tables |->
            [portfolio_trades |-> close_trade(fetched.id, user_id, exit_price, pnl_amount),
             trade_history |-> history_insert(fetched, user_id, ticker, exit_price,
                                              pnl_amount),
             performance_stats |-> stats_upsert(user_id, pnl_amount)]]

\* the rows that DELETE ... WHERE user_id = %s AND ticker = %s leaves
RECURSIVE trades_left(_, _, _)
trades_left(rows, user_id, ticker) ==
    IF rows = << >> THEN << >>
    ELSE IF Head(rows).user_id = user_id /\ Head(rows).ticker = ticker
    THEN trades_left(Tail(rows), user_id, ticker)
    ELSE << Head(rows) >> \o trades_left(Tail(rows), user_id, ticker)

\* delete_trade_mysql: success and the table after
delete_trade_mysql(connection, failed, user_id, ticker) ==
    LET left == trades_left(portfolio_trades, user_id, upper(ticker))
    IN  IF ~connection \/ failed THEN [success |-> FALSE, portfolio_trades |-> portfolio_trades]
        ELSE [success |-> Len(left) < Len(portfolio_trades), portfolio_trades |-> left]

\* a row as add_trade_mysql stores it from the add-trade form
Trade(id, user_id, ticker, position, stop_loss, target_1) ==
    [id |-> id, user_id |-> user_id, ticker |-> ticker, position |-> position,
     entry_price |-> 100, quantity |-> 10, stop_loss |-> stop_loss,
     target_1 |-> target_1, target_2 |-> (target_1 * 11) \div 10, status |-> "ACTIVE"]

\* tables of trades to close: two users holding the same ticker, one user
\* holding a ticker twice, and holdings of both users side by side
StoredTrades ==
    { << Trade(1, 1, "TCS", "LONG", 90, 110), Trade(2, 2, "TCS", "SHORT", 110, 90) >>,
      << Trade(1, 1, "TCS", "LONG", 90, 110), Trade(2, 1, "TCS", "SHORT", 110, 90) >>,
      << Trade(1, 1, "INFY", "LONG", 90, 110), Trade(2, 2, "INFY", "LONG", 90, 110),
         Trade(3, 2, "TCS", "LONG", 90, 110) >> }

\* a ticker in lower case, one exit price, a profit and a close at no profit
CloseTickers == {"tcs", "INFY"}
ExitPrices == {110}
PnlAmounts == {0, 100}

\* the statements at which mysql may fail: none, the UPDATE, the second INSERT
Failures == {0, 2, 4}

InitClose ==
    /\ settings \in [sl_risk_threshold : {50}]
    /\ last_api_call = << >>
    /\ api_call_count = 0
    /\ market = MarketWith(BaseCloses)
    /\ market_health = None
    /\ pos = UnknownRow
    /\ result = None
    /\ prev_result = None
    /\ analyses = 0
    /\ emergency_input = None
    /\ emergency = None
    /\ portfolio = << >>
    /\ pc = "close"
    /\ i = 0
    /\ results = << >>
    /\ missing = {}
    /\ portfolio_risk = None
    /\ prices_dict = << >>
    /\ corr_analysis = None
    /\ sector_analysis = None
    /\ emergencies = << >>
    /\ bars = [High |-> << >>, Low |-> << >>, Close |-> << >>]
    /\ indicator = None
    /\ portfolio_trades \in StoredTrades
    /\ positions = << >>
    /\ IdleClose
    /\ IdleAuth

\* mark_position_inactive_mysql(user_id, ticker, exit_price, pnl_amount, exit_reason)
MarkPositionInactive(connection, failed_at, user_id, ticker, exit_price, pnl_amount) ==
    /\ pc = "close"
    /\ \E fetched \in fetchone(active_trades(user_id, ticker)) :
          LET call == mark_position_inactive_mysql(connection, fetched, failed_at, user_id,
                                                   ticker, exit_price, pnl_amount)
          IN  /\ portfolio_trades' = call.tables.portfolio_trades
              /\ trade_history' = call.tables.trade_history
              /\ performance_stats' = call.tables.performance_stats
              /\ closed_trades' = IF call.success
                                  THEN [closed_trades EXCEPT ![user_id] = @ + 1]
                                  ELSE closed_trades
              /\ store_call' = [fn |-> "mark_position_inactive_mysql", user_id |-> user_id,
                                ticker |-> upper(ticker), success |-> call.success]
    /\ UNCHANGED << settings, sessionVars, market, market_health, positionVars, mainVars,
                    bars, indicator, positions, authVars >>

\* delete_trade_mysql(user_id, ticker)
DeleteTrade(connection, failed, user_id, ticker) ==
    /\ pc = "close"
    /\ LET call == delete_trade_mysql(connection, failed, user_id, ticker)
       IN  /\ portfolio_trades' = call.portfolio_trades
           /\ store_call' = [fn |-> "delete_trade_mysql", user_id |-> user_id,
                             ticker |-> upper(ticker), success |-> call.success]
    /\ UNCHANGED << settings, sessionVars, market, market_health, positionVars, mainVars,
                    bars, indicator, positions, trade_history, performance_stats,
                    closed_trades, authVars >>

NextClose ==
    \/ \E connection \in BOOLEAN, failed_at \in Failures, user_id \in Users :
       \E ticker \in CloseTickers, exit_price \in ExitPrices, pnl_amount \in PnlAmounts :
          MarkPositionInactive(connection, failed_at, user_id, ticker, exit_price, pnl_amount)
    \/ \E connection \in BOOLEAN, failed \in BOOLEAN, user_id \in Users :
       \E ticker \in CloseTickers :
          DeleteTrade(connection, failed, user_id, ticker)

SpecClose == InitClose /\ [][NextClose]_vars

\* ------------------------------------------------------------------------
\* The table positions (src/database.py) and its dialogs
\* ------------------------------------------------------------------------
\* the row with the columns of updates set
with_columns(row, updates) ==
    [f \in DOMAIN row \cup DOMAIN updates |->
        IF f \in DOMAIN updates THEN updates[f] ELSE row[f]]

allowed_fields ==
    {"stop_loss", "target_1", "target_2", "status", "exit_price", "exit_date",
     "realized_pnl", "exit_reason"}

\* the keyword arguments that are allowed fields
set_clauses(kwargs) == [f \in DOMAIN kwargs \cap allowed_fields |-> kwargs[f]]

\* DatabaseManager.update_position(position_id, **kwargs): UPDATE positions
\* SET ... WHERE position_id = %s.  The method has no parameter for the
\* user; user_id here is the user the caller acts for, and is not used.
update_position(connection, position_id, kwargs, user_id) ==
    IF ~connection THEN [success |-> FALSE, positions |-> positions]
    ELSE IF DOMAIN set_clauses(kwargs) = {} THEN [success |-> FALSE, positions |-> positions]
    ELSE [success |-> TRUE,
          positions |-> [k \in DOMAIN positions |->
                            IF positions[k].position_id = position_id
                            THEN with_columns(positions[k], set_clauses(kwargs))
                            ELSE positions[k]]]

\* get_active_positions(user_id): the ACTIVE rows of the user
get_active_positions(user_id) ==
    { row \in Range(positions) : row.user_id = user_id /\ row.status = "ACTIVE" }

\* show_edit_position_dialog(position_id) submitted by the user of the
\* session: "Position not found" unless the row is among the user's ACTIVE
\* positions
show_edit_position_dialog(connection, position_id, user_id, new_sl, new_t1, new_t2, new_status) ==
    IF \A row \in get_active_positions(user_id) : row.position_id # position_id
    THEN [success |-> FALSE, positions |-> positions]
    ELSE update_position(connection, position_id,
                         [stop_loss |-> new_sl, target_1 |-> new_t1, target_2 |-> new_t2,
                          status |-> new_status], user_id)

\* the rows that DELETE FROM positions WHERE position_id = %s AND user_id = %s leaves
RECURSIVE positions_left(_, _, _)
positions_left(rows, position_id, user_id) ==
    IF rows = << >> THEN << >>
    ELSE IF Head(rows).position_id = position_id /\ Head(rows).user_id = user_id
    THEN positions_left(Tail(rows), position_id, user_id)
    ELSE << Head(rows) >> \o positions_left(Tail(rows), position_id, user_id)

\* DatabaseManager.delete_position(position_id, user_id)
delete_position(connection, position_id, user_id) ==
    LET left == positions_left(positions, position_id, user_id)
    IN  IF ~connection THEN [success |-> FALSE, positions |-> positions]
        ELSE [success |-> Len(left) < Len(positions), positions |-> left]

\* DatabaseManager.close_position(position_id, exit_price, exit_reason,
\* user_id), failed being that mysql raises Error before the commit
close_position(connection, failed, position_id, exit_price, user_id) ==
    LET found == { row \in Range(positions) :
                     /\ row.position_id = position_id
                     /\ row.user_id = user_id
                     /\ row.status = "ACTIVE" }
        position == CHOOSE row \in found : TRUE
        pnl == IF position.position_type = "LONG"
               THEN (exit_price - position.entry_price) * position.quantity
               ELSE (position.entry_price - exit_price) * position.quantity
    IN  IF ~connection \/ found = {} \/ failed
        THEN [success |-> FALSE, positions |-> positions, trade_history |-> trade_history]
        ELSE [success |-> TRUE,
              positions |-> [k \in DOMAIN positions |->
                                IF positions[k].position_id = position_id
                                THEN with_columns(positions[k],
                                         [status |-> "INACTIVE", exit_price |-> exit_price,
                                          realized_pnl |-> pnl])
                                ELSE positions[k]],
              trade_history |->
                  Append(trade_history,
                         [user_id |-> user_id, position_id |-> position_id,
                          ticker |-> position.ticker,
                          trade_type |-> position.position_type,
                          entry_price |-> position.entry_price,
                          exit_price |-> exit_price, quantity |-> position.quantity,
                          pnl |-> pnl,
                          pnl_pct |-> pnl_pct_of(position.position_type,
                                                 position.entry_price, exit_price),
                          is_win |-> pnl > 0])]

\* a row as add_position stores it; position_id is the key of the table
Position(position_id, user_id, ticker, position_type, stop_loss, target_1) ==
    [position_id |-> position_id, user_id |-> user_id, ticker |-> ticker,
     position_type |-> position_type, entry_price |-> 100, quantity |-> 10,
     stop_loss |-> stop_loss, target_1 |-> target_1, target_2 |-> target_1,
     status |-> "ACTIVE"]

\* the positions of two users
StoredPositions ==
    { << Position(1, 1, "TCS", "LONG", 90, 110), Position(2, 2, "TCS", "LONG", 90, 110) >>,
      << Position(1, 1, "TCS", "LONG", 90, 110), Position(2, 2, "INFY", "SHORT", 110, 90) >> }

\* ids of rows and one of no row
PositionIds == 1..3

\* keyword arguments: a new stop, a new status, and a column that is not allowed
UpdateArgs ==
    { [stop_loss |-> 95], [status |-> "INACTIVE"], [ticker |-> "WIPRO"] }

InitPositions ==
    /\ settings \in [sl_risk_threshold : {50}]
    /\ last_api_call = << >>
    /\ api_call_count = 0
    /\ market = MarketWith(BaseCloses)
    /\ market_health = None
    /\ pos = UnknownRow
    /\ result = None
    /\ prev_result = None
    /\ analyses = 0
    /\ emergency_input = None
    /\ emergency = None
    /\ portfolio = << >>
    /\ pc = "positions"
    /\ i = 0
    /\ results = << >>
    /\ missing = {}
    /\ portfolio_risk = None
    /\ prices_dict = << >>
    /\ corr_analysis = None
    /\ sector_analysis = None
    /\ emergencies = << >>
    /\ bars = [High |-> << >>, Low |-> << >>, Close |-> << >>]
    /\ indicator = None
    /\ portfolio_trades = << >>
    /\ positions \in StoredPositions
    /\ IdleClose
    /\ IdleAuth

\* a caller acting for user_id calls db.update_position(position_id, **kwargs)
UpdatePosition(connection, position_id, kwargs, user_id) ==
    /\ pc = "positions"
    /\ LET call == update_position(connection, position_id, kwargs, user_id)
       IN  /\ positions' = call.positions
           /\ store_call' = [fn |-> "update_position", user_id |-> user_id,
                             success |-> call.success]
    /\ UNCHANGED << settings, sessionVars, market, market_health, positionVars, mainVars,
                    bars, indicator, portfolio_trades, trade_history, performance_stats,
                    closed_trades, authVars >>

\* the user of the session submits the edit dialog of a position
EditPosition(connection, position_id, user_id, new_sl, new_status) ==
    /\ pc = "positions"
    /\ LET call == show_edit_position_dialog(connection, position_id, user_id, new_sl, 110,
                                             120, new_status)
       IN  /\ positions' = call.positions
           /\ store_call' = [fn |-> "show_edit_position_dialog", user_id |-> user_id,
                             success |-> call.success]
    /\ UNCHANGED << settings, sessionVars, market, market_health, positionVars, mainVars,
                    bars, indicator, portfolio_trades, trade_history, performance_stats,
                    closed_trades, authVars >>

\* db.delete_position(position_id, user_id)
DeletePosition(connection, position_id, user_id) ==
    /\ pc = "positions"
    /\ LET call == delete_position(connection, position_id, user_id)
       IN  /\ positions' = call.positions
           /\ store_call' = [fn |-> "delete_position", user_id |-> user_id,
                             success |-> call.success]
    /\ UNCHANGED << settings, sessionVars, market, market_health, positionVars, mainVars,
                    bars, indicator, portfolio_trades, trade_history, performance_stats,
                    closed_trades, authVars >>

\* db.close_position(position_id, exit_price, exit_reason, user_id)
ClosePosition(connection, failed, position_id, exit_price, user_id) ==
    /\ pc = "positions"
    /\ LET call == close_position(connection, failed, position_id, exit_price, user_id)
       IN  /\ positions' = call.positions
           /\ trade_history' = call.trade_history
           /\ store_call' = [fn |-> "close_position", user_id |-> user_id,
                             success |-> call.success]
    /\ UNCHANGED << settings, sessionVars, market, market_health, positionVars, mainVars,
                    bars, indicator, portfolio_trades, performance_stats, closed_trades,
                    authVars >>

NextPositions ==
    \/ \E connection \in BOOLEAN, position_id \in PositionIds, kwargs \in UpdateArgs :
       \E user_id \in Users :
          UpdatePosition(connection, position_id, kwargs, user_id)
    \/ \E connection \in BOOLEAN, position_id \in PositionIds, user_id \in Users :
       \E new_sl \in {95}, new_status \in {"ACTIVE", "PENDING"} :
          EditPosition(connection, position_id, user_id, new_sl, new_status)
    \/ \E connection \in BOOLEAN, position_id \in PositionIds, user_id \in Users :
          DeletePosition(connection, position_id, user_id)
    \/ \E connection \in BOOLEAN, failed \in BOOLEAN, position_id \in PositionIds :
       \E exit_price \in ExitPrices, user_id \in Users :
          ClosePosition(connection, failed, position_id, exit_price, user_id)

SpecPositions == InitPositions /\ [][NextPositions]_vars

\* ------------------------------------------------------------------------
\* Accounts, sessions and password resets (src/auth_module.py)
\* ------------------------------------------------------------------------
PASSWORD_MIN_LENGTH == 8
MAX_LOGIN_ATTEMPTS == 5
ACCOUNT_LOCK_DURATION_MINUTES == 30
SESSION_EXPIRY_HOURS == 24
PASSWORD_RESET_EXPIRY_HOURS == 1

\* the clock stops at MaxClock minutes, and secrets gives at most MaxTokens tokens
MaxClock == 30
MaxTokens == 2

\* values of Python that carry their type
PyStr(v) == [type |-> "str", value |-> v]
PyInt(v) == [type |-> "int", value |-> v]
PyDict(v) == [type |-> "dict", value |-> v]
PyDateTime(v) == [type |-> "datetime", value |-> v]

isinstance(v, type) == ~IsNone(v) /\ v.type = type

\* the truth value of v in a condition
truthy(v) ==
    IF IsNone(v) THEN FALSE
    ELSE IF v.type = "str" THEN v.value # ""
    ELSE IF v.type = "int" THEN v.value # 0
    ELSE IF v.type = "dict" THEN v.value # << >>
    ELSE TRUE

\* timedelta(hours=h), in minutes
hours(h) == 60 * h

\* secrets.token_urlsafe(32): the k-th token it gives, never one it gave before
TokenNames == << "tokA", "tokB", "tokC", "tokD", "tokE", "tokF" >>

token_urlsafe(k) == TokenNames[k]

\* a password, with what the checks of validate_password_strength read of it
Password(text, length, has_upper, has_lower, has_digit, has_special) ==
    [text |-> text, length |-> length, upper |-> has_upper, lower |-> has_lower,
     digit |-> has_digit, special |-> has_special]

\* bcrypt.hash(password), salted
hash_password(password, salt) == [bcrypt |-> password.text, salt |-> salt]

\* bcrypt.verify(plain_password, hashed_password)
verify_password(plain_password, hashed_password) ==
    hashed_password.bcrypt = plain_password.text

validate_password_strength(password) ==
    IF password.length < PASSWORD_MIN_LENGTH
    THEN [valid |-> FALSE, message |-> "Password must be at least 8 characters"]
    ELSE IF ~password.upper
    THEN [valid |-> FALSE, message |-> "Password must contain at least one uppercase letter"]
    ELSE IF ~password.lower
    THEN [valid |-> FALSE, message |-> "Password must contain at least one lowercase letter"]
    ELSE IF ~password.digit
    THEN [valid |-> FALSE, message |-> "Password must contain at least one digit"]
    ELSE IF ~password.special
    THEN [valid |-> FALSE, message |-> "Password must contain at least one special character"]
    ELSE [valid |-> TRUE, message |-> ""]

\* check_account_locked(username, connection): an expired lock is reset
check_account_locked(table, username, clock) ==
    IF username \notin DOMAIN table
    THEN [is_locked |-> FALSE, locked_until |-> Null, users |-> table]
    ELSE LET locked_until == table[username].locked_until
         IN  IF locked_until # Null /\ locked_until > clock
             THEN [is_locked |-> TRUE, locked_until |-> locked_until, users |-> table]
             ELSE IF locked_until # Null
             THEN [is_locked |-> FALSE, locked_until |-> Null,
                   users |-> [table EXCEPT ![username].failed_login_attempts = 0,
                                           ![username].locked_until = Null]]
             ELSE [is_locked |-> FALSE, locked_until |-> Null, users |-> table]

\* increment_failed_login with a lock only above MAX_LOGIN_ATTEMPTS
increment_failed_login_late(table, username, clock) ==
    IF username \notin DOMAIN table
    THEN table
    ELSE LET failed == table[username].failed_login_attempts + 1
         IN  [table EXCEPT ![username].failed_login_attempts = failed,
                           ![username].locked_until =
                               IF failed > MAX_LOGIN_ATTEMPTS
                               THEN clock + ACCOUNT_LOCK_DURATION_MINUTES
                               ELSE @]

\* increment_failed_login(username, connection)
increment_failed_login(table, username, clock) ==
    IF username \notin DOMAIN table
    THEN table
    ELSE LET failed == table[username].failed_login_attempts + 1
         IN  [table EXCEPT ![username].failed_login_attempts = failed,
                           ![username].locked_until =
                               IF failed >= MAX_LOGIN_ATTEMPTS
                               THEN clock + ACCOUNT_LOCK_DURATION_MINUTES
                               ELSE @]

\* reset_failed_login(username, connection)
reset_failed_login(table, username, clock) ==
    IF username \notin DOMAIN table
    THEN table
    ELSE [table EXCEPT ![username].failed_login_attempts = 0,
                       ![username].locked_until = Null,
                       ![username].last_login = clock]

\* the rows of session_tokens that DELETE ... WHERE user_id = %s removes
tokens_of(tokens, user_id) == { row \in tokens : row.user_id = user_id }

\* the row that create_session_token inserts
session_row(user_id, token, clock) ==
    [user_id |-> user_id, token |-> token,
     expires_at |-> clock + hours(SESSION_EXPIRY_HOURS), last_used |-> Null]

\* create_session_token(user_id, connection) run without another connection at work
create_session_token(tokens, user_id, token, clock) ==
    (tokens \ tokens_of(tokens, user_id)) \cup { session_row(user_id, token, clock) }

\* what login_user returns
login_result(success, message, user_data) ==
    [fn |-> "login_user", success |-> success, message |-> message, user_data |-> user_data]

\* login_user, from the row it fetched to the password check: the result it
\* returns at once, or None when it goes on
login_checks(user, password) ==
    IF IsNone(user)
    THEN login_result(FALSE, "Invalid username or password", None)
    ELSE IF ~user.is_active
    THEN login_result(FALSE, "Account is disabled. Contact support", None)
    ELSE None

\* the user_data of a successful login
user_data_of(user, token) ==
    PyDict([user_id |-> PyInt(user.id), username |-> PyStr(user.username),
          email |-> PyStr(user.email), session_token |-> PyStr(token)])

\* SELECT ... FROM users WHERE username = %s, fetchone()
fetch_user(table, username) ==
    IF username \in DOMAIN table THEN table[username] ELSE None

\* login_user(username, password) run without another connection at work
login_user(table, tokens, connection, username, password, token, clock) ==
    LET unchanged(returned) == [returned |-> returned, users |-> table, session_tokens |-> tokens]
        locked == check_account_locked(table, username, clock)
        user == fetch_user(locked.users, username)
    IN  IF ~connection
        THEN unchanged(login_result(FALSE, "Database connection failed", None))
        ELSE IF locked.is_locked
        THEN unchanged(login_result(FALSE, "Account locked", None))
        ELSE IF ~IsNone(login_checks(user, password))
        THEN [returned |-> login_checks(user, password), users |-> locked.users,
              session_tokens |-> tokens]
        ELSE IF ~verify_password(password, user.password_hash)
        THEN [returned |-> login_result(FALSE, "Invalid username or password", None),
              users |-> increment_failed_login(locked.users, username, clock),
              session_tokens |-> tokens]
        ELSE [returned |-> login_result(TRUE, "Login successful", user_data_of(user, token)),
              users |-> reset_failed_login(locked.users, username, clock),
              session_tokens |-> create_session_token(tokens, user.id, token, clock)]

\* validate_session_token(token) on the row its SELECT fetched
validate_session_token(tokens, connection, fetched, token, clock) ==
    IF ~connection
    THEN [returned |-> None, session_tokens |-> tokens]
    ELSE IF IsNone(fetched)
    THEN [returned |-> None, session_tokens |-> tokens]
    ELSE IF fetched.expires_at < clock
    THEN [returned |-> None, session_tokens |-> { row \in tokens : row.token # token }]
    ELSE [returned |-> PyInt(fetched.user_id),
          session_tokens |-> { IF row.token = token THEN [row EXCEPT !.last_used = clock]
                               ELSE row : row \in tokens }]

\* logout_user(token)
logout_user(tokens, connection, token) ==
    IF ~connection THEN tokens ELSE { row \in tokens : row.token # token }

\* the rows of session_tokens with this token
token_rows(tokens, token) == { row \in tokens : row.token = token }

\* ------------------------------------------------------------------------
\* The session of a browser (src/auth_ui.py)
\* ------------------------------------------------------------------------
\* st.session_state after init_auth_session_state on a new session
init_auth_session_state ==
    [is_logged_in |-> FALSE, user_id |-> None, username |-> None, email |-> None,
     session_token |-> None, login_time |-> None, last_session_check |-> None]

\* clear_session(): last_session_check stays
clear_session(state) ==
    [state EXCEPT !.is_logged_in = FALSE, !.user_id = None, !.username = None,
                  !.email = None, !.session_token = None, !.login_time = None]

\* the first check of check_existing_session: logged in and validated less
\* than 10 minutes ago
cached_session(state, clock) ==
    /\ state.is_logged_in
    /\ truthy(state.user_id)
    /\ truthy(state.last_session_check)
    /\ clock - state.last_session_check.value < 10

\* the session state check_existing_session restores from user_data
restored_session(state, user_data, session_token, clock) ==
    [state EXCEPT !.is_logged_in = TRUE,
                  !.user_id = user_data.value.user_id,
                  !.username = user_data.value.username,
                  !.email = user_data.value.email,
                  !.session_token = session_token,
                  !.login_time = IF truthy(@) THEN @ ELSE PyDateTime(clock)]

\* check_existing_session(); failed: the query of validate_session_token raises
check_existing_session(state, tokens, connection, failed, fetched, clock) ==
    LET same(returned) == [returned |-> returned, session_state |-> state, session_tokens |-> tokens]
        session_token == state.session_token
        validated == validate_session_token(tokens, connection, fetched, session_token.value, clock)
        user_data == validated.returned
        checked == [state EXCEPT !.last_session_check = PyDateTime(clock)]
    IN  IF cached_session(state, clock)
        THEN same(TRUE)
        ELSE IF ~truthy(session_token) \/ ~isinstance(session_token, "str")
        THEN same(FALSE)
        ELSE IF failed
        THEN IF state.is_logged_in
             THEN same(TRUE)
             ELSE [returned |-> FALSE, session_state |-> clear_session(state),
                   session_tokens |-> tokens]
        ELSE IF truthy(user_data) /\ isinstance(user_data, "dict")
        THEN [returned |-> TRUE,
              session_state |-> restored_session(checked, user_data, session_token, clock),
              session_tokens |-> validated.session_tokens]
        ELSE [returned |-> FALSE, session_state |-> clear_session(checked),
              session_tokens |-> validated.session_tokens]

\* the submit of the login form of render_login_page, on what login_user returned
login_submitted(state, returned, clock) ==
    IF returned.success
    THEN [state EXCEPT !.is_logged_in = TRUE,
                       !.user_id = returned.user_data.value.user_id,
                       !.username = returned.user_data.value.username,
                       !.email = returned.user_data.value.email,
                       !.session_token = returned.user_data.value.session_token,
                       !.login_time = PyDateTime(clock),
                       !.last_session_check = PyDateTime(clock)]
    ELSE state

\* ------------------------------------------------------------------------
\* One browser session: login form, session check, logout
\* ------------------------------------------------------------------------
AshaPassword == Password("Asha#2024", 9, TRUE, TRUE, TRUE, TRUE)
RaviPassword == Password("Ravi@5678", 9, TRUE, TRUE, TRUE, TRUE)
WrongPassword == Password("Wrong#000", 9, TRUE, TRUE, TRUE, TRUE)
WeakPassword == Password("weak", 4, FALSE, TRUE, FALSE, FALSE)
NewPassword == Password("Fresh$789", 9, TRUE, TRUE, TRUE, TRUE)

\* a row of the table users as register_user leaves it
Account(id, username, email, password, is_active) ==
    [id |-> id, username |-> username, email |-> email,
     password_hash |-> hash_password(password, 1), is_active |-> is_active,
     failed_login_attempts |-> 0, locked_until |-> Null, last_login |-> Null]

\* two accounts in use and one disabled
Accounts ==
    [username \in {"asha", "ravi", "zed"} |->
        IF username = "asha" THEN Account(1, "asha", "asha@example.com", AshaPassword, TRUE)
        ELSE IF username = "ravi" THEN Account(2, "ravi", "ravi@example.com", RaviPassword, TRUE)
        ELSE Account(3, "zed", "zed@example.com", WeakPassword, FALSE)]

\* what the users of the browser type into the login form
LoginForms ==
    { [username |-> "asha", password |-> AshaPassword],
      [username |-> "ravi", password |-> RaviPassword] }

\* the minutes between two steps of a browser session
SessionDelays == {5}

\* a login of asha made 40 minutes short of a day ago, on the same browser session
EarlierLogin == login_user(Accounts, {}, TRUE, "asha", AshaPassword, TokenNames[6], 40 - hours(24))

AuthIdleOthers ==
    /\ settings \in [sl_risk_threshold : {50}]
    /\ last_api_call = << >>
    /\ api_call_count = 0
    /\ market = MarketWith(BaseCloses)
    /\ market_health = None
    /\ pos = UnknownRow
    /\ result = None
    /\ prev_result = None
    /\ analyses = 0
    /\ emergency_input = None
    /\ emergency = None
    /\ portfolio = << >>
    /\ i = 0
    /\ results = << >>
    /\ missing = {}
    /\ portfolio_risk = None
    /\ prices_dict = << >>
    /\ corr_analysis = None
    /\ sector_analysis = None
    /\ emergencies = << >>
    /\ bars = [High |-> << >>, Low |-> << >>, Close |-> << >>]
    /\ indicator = None
    /\ portfolio_trades = << >>
    /\ positions = << >>
    /\ IdleClose

InitSession ==
    /\ AuthIdleOthers
    /\ pc = "session"
    /\ now = 0
    /\ issued = 0
    /\ calls = << >>
    /\ auth_call = None
    /\ password_reset_tokens = {}
    /\ \/ /\ users = Accounts
          /\ session_tokens = {}
          /\ auth_state = init_auth_session_state
       \/ /\ users = EarlierLogin.users
          /\ session_tokens = EarlierLogin.session_tokens
          /\ auth_state = login_submitted(init_auth_session_state, EarlierLogin.returned,
                                          40 - hours(24))

otherVars == << settings, sessionVars, market, market_health, positionVars, mainVars, bars, indicator, portfolio_trades, positions, closeVars >>

\* the login form is submitted: login_user, then the session state is set
SubmitLogin(connection, username, password) ==
    /\ pc = "session"
    /\ ~auth_state.is_logged_in
    /\ issued < MaxTokens
    /\ LET call == login_user(users, session_tokens, connection, username, password,
                              token_urlsafe(issued + 1), now)
       IN  /\ users' = call.users
           /\ session_tokens' = call.session_tokens
           /\ issued' = IF call.returned.success THEN issued + 1 ELSE issued
           /\ auth_state' = login_submitted(auth_state, call.returned, now)
           /\ auth_call' = call.returned
    /\ UNCHANGED << otherVars, password_reset_tokens, now, calls >>

\* a rerun of the page: require_authentication calls check_existing_session
CheckExistingSession(connection, failed) ==
    /\ pc = "session"
    /\ \E fetched \in fetchone(IF truthy(auth_state.session_token)
                               THEN token_rows(session_tokens, auth_state.session_token.value)
                               ELSE {}) :
          LET call == check_existing_session(auth_state, session_tokens, connection, failed,
                                             fetched, now)
          IN  /\ auth_state' = call.session_state
              /\ session_tokens' = call.session_tokens
              /\ auth_call' = [fn |-> "check_existing_session", returned |-> call.returned]
    /\ UNCHANGED << otherVars, users, password_reset_tokens, now, issued, calls >>

\* the logout button of render_logout_button
LogoutButton(connection) ==
    /\ pc = "session"
    /\ auth_state.is_logged_in
    /\ session_tokens' = IF truthy(auth_state.session_token)
                         THEN logout_user(session_tokens, connection,
                                          auth_state.session_token.value)
                         ELSE session_tokens
    /\ auth_state' = clear_session(auth_state)
    /\ auth_call' = [fn |-> "logout_user", returned |-> None]
    /\ UNCHANGED << otherVars, users, password_reset_tokens, now, issued, calls >>

\* time passes
Advance(delay) ==
    /\ pc \in {"session", "login", "reset"}
    /\ now + delay <= MaxClock
    /\ now' = now + delay
    /\ UNCHANGED << otherVars, users, session_tokens, password_reset_tokens, issued,
                    auth_state, calls, auth_call >>

NextSession ==
    \/ \E connection \in BOOLEAN, form \in LoginForms :
          SubmitLogin(connection, form.username, form.password)
    \/ \E connection \in BOOLEAN, failed \in BOOLEAN : CheckExistingSession(connection, failed)
    \/ \E connection \in BOOLEAN : LogoutButton(connection)
    \/ \E delay \in SessionDelays : Advance(delay)

SpecSession == InitSession /\ [][NextSession]_vars

\* ------------------------------------------------------------------------
\* Logins on two connections at once (src/auth_module.py)
\* ------------------------------------------------------------------------
\* each call of login_user opens a connection of its own
Connections == 1..2

\* no call of login_user in progress on the connection
IdleCall == [at |-> "idle"]

\* what is typed into login forms: the right and a wrong password of asha,
\* a disabled account, a name without an account
LoginAttempts ==
    { [username |-> "asha", password |-> AshaPassword],
      [username |-> "asha", password |-> WrongPassword],
      [username |-> "zed", password |-> WeakPassword],
      [username |-> "nobody", password |-> WrongPassword] }

\* the minutes between two steps of the logins
LoginDelays == {30}

\* the calls of login_user that may still take a token
calls_running == { c \in Connections : calls[c].at # "idle" }

InitLogin ==
    /\ AuthIdleOthers
    /\ pc = "login"
    /\ users = Accounts
    /\ session_tokens = {}
    /\ password_reset_tokens = {}
    /\ now = 0
    /\ issued = 0
    /\ auth_state = None
    /\ calls = [c \in Connections |-> IdleCall]
    /\ auth_call = None

\* login_user is called: get_db_connection, then check_account_locked
LoginBegin(c, connection, username, password) ==
    /\ pc = "login"
    /\ calls[c].at = "idle"
    /\ issued + Cardinality(calls_running) < MaxTokens
    /\ LET locked == check_account_locked(users, username, now)
       IN  IF ~connection
           THEN /\ auth_call' = login_result(FALSE, "Database connection failed", None)
                /\ UNCHANGED << users, calls >>
           ELSE IF locked.is_locked
           THEN /\ auth_call' = login_result(FALSE, "Account locked", None)
                /\ UNCHANGED << users, calls >>
           ELSE /\ users' = locked.users
                /\ calls' = [calls EXCEPT ![c] = [at |-> "fetch", username |-> username,
                                                  password |-> password]]
                /\ UNCHANGED auth_call
    /\ UNCHANGED << otherVars, session_tokens, password_reset_tokens, now, issued, auth_state >>

\* login_user fetches the user and verifies the password
LoginFetch(c) ==
    /\ pc = "login"
    /\ calls[c].at = "fetch"
    /\ LET user == fetch_user(users, calls[c].username)
           returned == login_checks(user, calls[c].password)
       IN  IF ~IsNone(returned)
           THEN /\ auth_call' = returned
                /\ calls' = [calls EXCEPT ![c] = IdleCall]
           ELSE /\ calls' = [calls EXCEPT ![c] =
                       [at |-> IF verify_password(calls[c].password, user.password_hash)
                               THEN "reset" ELSE "increment",
                        username |-> calls[c].username, user |-> user]]
                /\ UNCHANGED auth_call
    /\ UNCHANGED << otherVars, users, session_tokens, password_reset_tokens, now, issued,
                    auth_state >>

\* the password was wrong: increment_failed_login, and login_user returns
LoginIncrement(c) ==
    /\ pc = "login"
    /\ calls[c].at = "increment"
    /\ users' = increment_failed_login(users, calls[c].username, now)
    /\ auth_call' = login_result(FALSE, "Invalid username or password", None)
    /\ calls' = [calls EXCEPT ![c] = IdleCall]
    /\ UNCHANGED << otherVars, session_tokens, password_reset_tokens, now, issued, auth_state >>

\* the password was right: reset_failed_login
LoginReset(c) ==
    /\ pc = "login"
    /\ calls[c].at = "reset"
    /\ users' = reset_failed_login(users, calls[c].username, now)
    /\ calls' = [calls EXCEPT ![c].at = "create"]
    /\ UNCHANGED << otherVars, session_tokens, password_reset_tokens, now, issued, auth_state,
                    auth_call >>

\* the rows of session_tokens that other connections have deleted and not
\* yet committed: their locks make a DELETE of the same rows wait
rows_locked(c) ==
    UNION { calls[other].deleted : other \in { o \in Connections : o # c /\ calls[o].at = "insert" } }

\* create_session_token: the token is made and the old tokens of the user
\* are deleted, not yet committed
LoginDeleteTokens(c) ==
    /\ pc = "login"
    /\ calls[c].at = "create"
    /\ tokens_of(session_tokens, calls[c].user.id) \cap rows_locked(c) = {}
    /\ issued' = issued + 1
    /\ calls' = [calls EXCEPT ![c] =
            [at |-> "insert", username |-> calls[c].username, user |-> calls[c].user,
             row |-> session_row(calls[c].user.id, token_urlsafe(issued + 1), now),
             deleted |-> tokens_of(session_tokens, calls[c].user.id)]]
    /\ UNCHANGED << otherVars, users, session_tokens, password_reset_tokens, now, auth_state,
                    auth_call >>

\* create_session_token inserts the token and commits, and login_user
\* returns; raised: the INSERT raises Error and login_user catches it
LoginInsertToken(c, raised) ==
    /\ pc = "login"
    /\ calls[c].at = "insert"
    /\ IF raised
       THEN /\ auth_call' = login_result(FALSE, "Login failed", None)
            /\ UNCHANGED session_tokens
       ELSE /\ session_tokens' = (session_tokens \ calls[c].deleted) \cup { calls[c].row }
            /\ auth_call' = login_result(TRUE, "Login successful",
                                         user_data_of(calls[c].user, calls[c].row.token))
    /\ calls' = [calls EXCEPT ![c] = IdleCall]
    /\ UNCHANGED << otherVars, users, password_reset_tokens, now, issued, auth_state >>

\* validate_session_token(token) on a connection of its own
ValidateSessionToken(connection, token) ==
    /\ pc = "login"
    /\ \E fetched \in fetchone(token_rows(session_tokens, token)) :
          LET call == validate_session_token(session_tokens, connection, fetched, token, now)
          IN  /\ session_tokens' = call.session_tokens
              /\ auth_call' = [fn |-> "validate_session_token", token |-> token,
                               returned |-> call.returned]
    /\ UNCHANGED << otherVars, users, password_reset_tokens, now, issued, auth_state, calls >>

\* logout_user(token) on a connection of its own
LogoutUser(connection, token) ==
    /\ pc = "login"
    /\ session_tokens' = logout_user(session_tokens, connection, token)
    /\ auth_call' = [fn |-> "logout_user", token |-> token, returned |-> None]
    /\ UNCHANGED << otherVars, users, password_reset_tokens, now, issued, auth_state, calls >>

\* the tokens given so far
TokensGiven == { token_urlsafe(k) : k \in 1..issued }

NextLogin ==
    \/ \E c \in Connections, connection \in BOOLEAN, attempt \in LoginAttempts :
          LoginBegin(c, connection, attempt.username, attempt.password)
    \/ \E c \in Connections : LoginFetch(c)
    \/ \E c \in Connections : LoginIncrement(c)
    \/ \E c \in Connections : LoginReset(c)
    \/ \E c \in Connections : LoginDeleteTokens(c)
    \/ \E c \in Connections, raised \in BOOLEAN : LoginInsertToken(c, raised)
    \/ \E connection \in BOOLEAN, token \in TokensGiven : ValidateSessionToken(connection, token)
    \/ \E connection \in BOOLEAN, token \in TokensGiven : LogoutUser(connection, token)
    \/ \E delay \in LoginDelays : Advance(delay)

SpecLogin == InitLogin /\ [][NextLogin]_vars

\* ------------------------------------------------------------------------
\* Password resets on two connections at once (src/auth_module.py)
\* ------------------------------------------------------------------------
\* SELECT id FROM users WHERE email = %s, fetchone()
users_with_email(table, email) ==
    { table[username] : username \in { u \in DOMAIN table : table[u].email = email } }

\* create_password_reset_token(email) on the row its SELECT fetched
create_password_reset_token(resets, connection, user, token, clock) ==
    IF ~connection
    THEN [success |-> FALSE, message |-> "Database connection failed", token |-> None,
          password_reset_tokens |-> resets]
    ELSE IF IsNone(user)
    THEN [success |-> TRUE, message |-> "If email exists, reset link sent", token |-> None,
          password_reset_tokens |-> resets]
    ELSE [success |-> TRUE, message |-> "Reset token created", token |-> PyStr(token),
          password_reset_tokens |->
              resets \cup { [user_id |-> user.id, token |-> token,
                             expires_at |-> clock + hours(PASSWORD_RESET_EXPIRY_HOURS),
                             used |-> FALSE] }]

\* what reset_password_with_token returns
reset_result(success, message) ==
    [fn |-> "reset_password_with_token", success |-> success, message |-> message]

\* reset_password_with_token, up to the checks of the token row it fetched:
\* the result it returns at once, or None when it goes on
reset_checks(connection, fetched, new_password, clock) ==
    IF ~connection
    THEN reset_result(FALSE, "Database connection failed")
    ELSE IF ~validate_password_strength(new_password).valid
    THEN reset_result(FALSE, validate_password_strength(new_password).message)
    ELSE IF IsNone(fetched)
    THEN reset_result(FALSE, "Invalid reset token")
    ELSE IF fetched.used
    THEN reset_result(FALSE, "Reset token already used")
    ELSE IF fetched.expires_at < clock
    THEN reset_result(FALSE, "Reset token expired")
    ELSE None

\* UPDATE users SET password_hash, failed_login_attempts = 0, locked_until = NULL WHERE id
password_updated(table, user_id, password_hash) ==
    [username \in DOMAIN table |->
        IF table[username].id = user_id
        THEN [table[username] EXCEPT !.password_hash = password_hash,
                                     !.failed_login_attempts = 0,
                                     !.locked_until = Null]
        ELSE table[username]]

\* UPDATE password_reset_tokens SET used = TRUE WHERE token = %s
token_used(resets, token) ==
    { IF row.token = token THEN [row EXCEPT !.used = TRUE] ELSE row : row \in resets }

\* the rows of password_reset_tokens with this token
reset_rows(resets, token) == { row \in resets : row.token = token }

\* reset_password_with_token(token, new_password) run without another
\* connection at work; raised: a statement raises Error and all is rolled back
reset_password_with_token(table, resets, connection, fetched, raised, token, new_password, salt, clock) ==
    LET returned == reset_checks(connection, fetched, new_password, clock)
    IN  IF ~IsNone(returned)
        THEN [returned |-> returned, users |-> table, password_reset_tokens |-> resets]
        ELSE IF raised
        THEN [returned |-> reset_result(FALSE, "Password reset failed"), users |-> table,
              password_reset_tokens |-> resets]
        ELSE [returned |-> reset_result(TRUE, "Password reset successful"),
              users |-> password_updated(table, fetched.user_id,
                                         hash_password(new_password, salt)),
              password_reset_tokens |-> token_used(resets, token)]

\* a reset token made for asha 45 minutes ago
EarlierReset ==
    create_password_reset_token({}, TRUE, Accounts["asha"], TokenNames[6],
                                15 - hours(PASSWORD_RESET_EXPIRY_HOURS))

\* the addresses typed into the reset form: one of an account, one of none
ResetEmails == { "asha@example.com", "nobody@example.com" }

\* the passwords typed into the reset form
ResetPasswords == { NewPassword, WrongPassword, WeakPassword }

\* the salts bcrypt draws
Salts == {2, 3}

\* the minutes between two steps of the resets
ResetDelays == {30}

\* the tokens typed into the reset form: those given, and one never given
ResetTokens == TokensGiven \cup { TokenNames[5], TokenNames[6] }

InitReset ==
    /\ AuthIdleOthers
    /\ pc = "reset"
    /\ users = Accounts
    /\ session_tokens = {}
    /\ password_reset_tokens = EarlierReset.password_reset_tokens
    /\ now = 0
    /\ issued = 0
    /\ auth_state = None
    /\ calls = [c \in Connections |-> IdleCall]
    /\ auth_call = None

\* create_password_reset_token(email) on a connection of its own
CreateResetToken(connection, email) ==
    /\ pc = "reset"
    /\ issued < MaxTokens
    /\ \E user \in fetchone(users_with_email(users, email)) :
          LET call == create_password_reset_token(password_reset_tokens, connection, user,
                                                  token_urlsafe(issued + 1), now)
          IN  /\ password_reset_tokens' = call.password_reset_tokens
              /\ issued' = IF connection /\ ~IsNone(user) THEN issued + 1 ELSE issued
              /\ auth_call' = [fn |-> "create_password_reset_token",
                               success |-> call.success, message |-> call.message]
    /\ UNCHANGED << otherVars, users, session_tokens, now, auth_state, calls >>

\* reset_password_with_token is called: the password and the token are checked
ResetBegin(c, connection, token, new_password) ==
    /\ pc = "reset"
    /\ calls[c].at = "idle"
    /\ \E fetched \in fetchone(reset_rows(password_reset_tokens, token)) :
          LET returned == reset_checks(connection, fetched, new_password, now)
          IN  IF ~IsNone(returned)
              THEN /\ auth_call' = returned
                   /\ UNCHANGED calls
              ELSE /\ calls' = [calls EXCEPT ![c] =
                          [at |-> "update", token |-> token, new_password |-> new_password,
                           user_id |-> fetched.user_id]]
                   /\ UNCHANGED auth_call
    /\ UNCHANGED << otherVars, users, session_tokens, password_reset_tokens, now, issued,
                    auth_state >>

\* reset_password_with_token updates the password, marks the token used and
\* commits; raised: a statement raises Error and the call rolls back
ResetUpdate(c, raised, salt) ==
    /\ pc = "reset"
    /\ calls[c].at = "update"
    /\ IF raised
       THEN /\ auth_call' = reset_result(FALSE, "Password reset failed")
            /\ UNCHANGED << users, password_reset_tokens >>
       ELSE /\ users' = password_updated(users, calls[c].user_id,
                                         hash_password(calls[c].new_password, salt))
            /\ password_reset_tokens' = token_used(password_reset_tokens, calls[c].token)
            /\ auth_call' = reset_result(TRUE, "Password reset successful")
    /\ calls' = [calls EXCEPT ![c] = IdleCall]
    /\ UNCHANGED << otherVars, session_tokens, now, issued, auth_state >>

NextReset ==
    \/ \E connection \in BOOLEAN, email \in ResetEmails : CreateResetToken(connection, email)
    \/ \E c \in Connections, connection \in BOOLEAN, token \in ResetTokens :
       \E new_password \in ResetPasswords : ResetBegin(c, connection, token, new_password)
    \/ \E c \in Connections, raised \in BOOLEAN, salt \in Salts : ResetUpdate(c, raised, salt)
    \/ \E delay \in ResetDelays : Advance(delay)

SpecReset == InitReset /\ [][NextReset]_vars

\* ------------------------------------------------------------------------
\* get_stock_data_safe called on its own
\* ------------------------------------------------------------------------
InitFetch ==
    /\ settings \in [sl_risk_threshold : {50}]
    /\ last_api_call = << >>
    /\ api_call_count = 0
    /\ market = MarketWith(BaseCloses)
    /\ market_health = None
    /\ pos = UnknownRow
    /\ result = None
    /\ prev_result = None
    /\ analyses = 0
    /\ emergency_input = None
    /\ emergency = None
    /\ portfolio = << >>
    /\ pc = "fetch"
    /\ i = 0
    /\ results = << >>
    /\ missing = {}
    /\ portfolio_risk = None
    /\ prices_dict = << >>
    /\ corr_analysis = None
    /\ sector_analysis = None
    /\ emergencies = << >>
    /\ IdleExtra

\* df = get_stock_data_safe(ticker); calls_before is api_call_count at the call
Fetch(ticker, outcomes) ==
    /\ pc = "fetch"
    /\ api_call_count + 3 <= MaxApiCalls
    /\ LET fetched == get_stock_data_safe(ticker, outcomes, market[ticker], session_state)
       IN  /\ indicator' = [fn |-> "get_stock_data_safe", ticker |-> ticker,
                            outcomes |-> outcomes, calls_before |-> api_call_count,
                            df |-> fetched.df]
           /\ last_api_call' = fetched.session.last_api_call
           /\ api_call_count' = fetched.session.api_call_count
    /\ UNCHANGED << settings, market, market_health, positionVars, mainVars,
                    bars, portfolio_trades, positions, closeVars, authVars >>

NextFetch == \E ticker \in Tickers : \E outcomes \in FetchOutcomes : Fetch(ticker, outcomes)

SpecFetch == InitFetch /\ [][NextFetch]_vars

\* ------------------------------------------------------------------------
\* Properties
\* ------------------------------------------------------------------------
\* r is the record smart_analyze_position returns for a row with price data
HasResult(r) == ~IsNone(r) /\ ~IsRaised(r)

\* the price is through the stop of the position
Breached(r) ==
    IF r.position_type = "LONG" THEN r.current_price < r.stop_loss
    ELSE r.current_price > r.stop_loss

\* the price has reached the target of the position
Reached(r, target) ==
    IF r.position_type = "LONG" THEN r.current_price >= target
    ELSE r.current_price <= target

RECURSIVE select_rows(_, _, _)
select_rows(rows, kept, k) ==
    IF k > Len(rows) THEN << >>
    ELSE (IF k \in kept THEN << rows[k] >> ELSE << >>) \o select_rows(rows, kept, k + 1)

\* the rows of the portfolio that gave an analysis result
AnalysedRows == select_rows(portfolio, (1..Len(portfolio)) \ missing, 1)

AfterLoop == pc \in {"risk", "corr", "sector", "done", "no_results"}

\* C1 as stated: a LONG position with current_price <= stop_loss, the
\* boundary included, has SL risk 100 and a breach reason.
C1_AtOrBelowStop ==
    (HasResult(result) /\ result.position_type = "LONG"
        /\ result.current_price <= result.stop_loss)
    => (result.sl_risk = 100 /\ "SL breached!" \in Range(result.sl_reasons))

\* what predict_sl_risk does at and below the stop: a LONG position with
\* current_price < stop_loss has SL risk 100 and a breach reason; at
\* current_price = stop_loss the distance is 0, the risk is 40 and the
\* reason is the very-close one.
C1_BelowStop ==
    (HasResult(result) /\ result.position_type = "LONG")
    => /\ result.current_price < result.stop_loss
            => (result.sl_risk = 100 /\ "SL breached!" \in Range(result.sl_reasons))
       /\ result.current_price = result.stop_loss
            => (result.sl_risk = 40 /\ result.sl_reasons = << "Very close" >>)

C1_Witness ==
    /\ HasResult(result)
    /\ result.position_type = "LONG"
    /\ result.current_price < result.stop_loss
    /\ result.sl_risk = 100

\* C2: the loop of main over the rows never aborts on a row without price
\* data: no exception leaves it, every row is visited, and the result list
\* holds exactly the rows that had data, in portfolio order.
C2_BatchSurvivesMissingData ==
    /\ pc # "exception"
    /\ pc = "analyze" => Len(results) = (i - 1) - Cardinality(missing)
    /\ AfterLoop =>
          /\ Len(results) = Len(portfolio) - Cardinality(missing)
          /\ [k \in 1..Len(results) |->
                << results[k].ticker, results[k].position_type, results[k].entry_price >>]
             = [k \in 1..Len(AnalysedRows) |->
                << AnalysedRows[k].Ticker, AnalysedRows[k].Position,
                   AnalysedRows[k].Entry_Price >>]

C2_Witness ==
    /\ pc = "done"
    /\ Len(portfolio) >= 3
    /\ Cardinality(missing) = 1
    /\ 2 \in missing
    /\ Len(results) = Len(portfolio) - 1

\* C3: the portfolio aggregates of a cycle are computed from the rows that
\* gave an analysis result only; a row without price data is left out.
C3_AggregatesOverAnalysedRows ==
    pc = "done" =>
        /\ portfolio_risk = calculate_portfolio_risk(AnalysedRows)
        /\ sector_analysis = analyze_sector_exposure(AnalysedRows)

\* C4: every score is within [0, 100]: health_score, the RSI that feeds
\* it, sl_risk, the momentum score and the RSI of the position.
C4_ScoresInRange ==
    /\ ~IsNone(market_health) =>
          /\ market_health.health_score \in 0..100
          /\ market_health.nifty_rsi \in 0..10000
    /\ HasResult(result) =>
          /\ result.sl_risk \in 0..100
          /\ result.momentum_score \in 0..100
          /\ result.rsi \in 0..10000

C4_Witness ==
    /\ ~IsNone(market_health)
    /\ market_health.health_score = 100
    /\ HasResult(result)
    /\ result.sl_risk = 100
    /\ result.rsi # 5000

\* C5: for a LONG position with its stop fixed, of two analyses the one at
\* the lower price never has the lower SL risk.
C5_RiskMonotone ==
    (HasResult(result) /\ HasResult(prev_result) /\ result.position_type = "LONG"
        /\ result.stop_loss = prev_result.stop_loss)
    => /\ result.current_price < prev_result.current_price
            => result.sl_risk >= prev_result.sl_risk
       /\ result.current_price > prev_result.current_price
            => result.sl_risk <= prev_result.sl_risk

C5_Witness ==
    /\ HasResult(result)
    /\ HasResult(prev_result)
    /\ result.position_type = "LONG"
    /\ result.current_price < prev_result.current_price
    /\ prev_result.current_price > result.stop_loss
    /\ result.sl_risk > prev_result.sl_risk

\* a step that is a call of smart_analyze_position for the row
AnalyzeStep == analyses' = analyses + 1

\* the latest result was computed on the series the market holds now
ResultIsCurrent == HasResult(result) /\ result.df = DataFrame(market[pos.Ticker])

DayLowOf(r) == Get(r, "day_low", 0)

DayHighOf(r) == Get(r, "day_high", 0)

\* the gap of the claim: the day's range is more than 2% through the stop
GapThroughStop(r) ==
    \/ r.position_type = "LONG" /\ 100 * DayLowOf(r) < 98 * r.stop_loss
    \/ r.position_type = "SHORT" /\ 100 * DayHighOf(r) > 102 * r.stop_loss

\* C7: a LONG position with day_low < 0.98 * stop_loss, and a SHORT one
\* with day_high > 1.02 * stop_loss, is an emergency with urgency CRITICAL
\* and a gap reason, whatever the market health, absent included.
C7_GapIsEmergency ==
    (~IsNone(emergency) /\ GapThroughStop(emergency_input.result))
    => /\ emergency.emergency = TRUE
       /\ emergency.urgency = "CRITICAL"
       /\ \E k \in 1..Len(emergency.reasons) :
             emergency.reasons[k] \in {"Gap down: Day low below SL",
                                       "Gap up: Day high above SL"}

C7_Witness ==
    /\ ~IsNone(emergency)
    /\ IsNone(emergency_input.market_health)
    /\ emergency_input.result.position_type = "SHORT"
    /\ "day_high" \in DOMAIN emergency_input.result
    /\ GapThroughStop(emergency_input.result)
    /\ emergency.urgency = "CRITICAL"

\* the rules of the claim, on the arguments of the call
BearishAndDown ==
    /\ ~IsNone(emergency_input.market_health)
    /\ emergency_input.market_health.status = "BEARISH"
    /\ emergency_input.result.pnl_percent < -200

VixAndRisk ==
    /\ ~IsNone(emergency_input.market_health)
    /\ emergency_input.market_health.vix > 25
    /\ emergency_input.result.sl_risk > 60

RulesMatched ==
    (IF BearishAndDown THEN 1 ELSE 0)
    + (IF GapThroughStop(emergency_input.result) THEN 1 ELSE 0)
    + (IF VixAndRisk THEN 1 ELSE 0)

\* C8: emergency is true exactly when one of the three rules matches,
\* urgency is CRITICAL exactly then and NORMAL otherwise, and the reasons
\* list has one entry per matching rule.
C8_EmergencyIffRule ==
    ~IsNone(emergency)
    => /\ emergency.emergency = (RulesMatched > 0)
       /\ emergency.urgency = (IF RulesMatched > 0 THEN "CRITICAL" ELSE "NORMAL")
       /\ Len(emergency.reasons) = RulesMatched

C8_Witness ==
    /\ ~IsNone(emergency)
    /\ BearishAndDown
    /\ VixAndRisk
    /\ ~GapThroughStop(emergency_input.result)
    /\ Len(emergency.reasons) = 2

\* C9: overall_status is CRITICAL exactly when the stop is breached,
\* whatever the targets, the alert threshold and the P&L.
C9_CriticalIffBreached ==
    HasResult(result) => ((result.overall_status = "CRITICAL") <=> Breached(result))

C9_Witness ==
    /\ HasResult(result)
    /\ result.position_type = "SHORT"
    /\ Breached(result)
    /\ result.overall_status = "CRITICAL"
    /\ settings.sl_risk_threshold = 30

\* C10: with the stop not breached, a price that has reached target_2 gives
\* SUCCESS and one that has reached target_1 but not target_2 gives
\* OPPORTUNITY, never WARNING.
C10_TargetsBeforeWarning ==
    (HasResult(result) /\ ~Breached(result))
    => /\ Reached(result, result.target2) => result.overall_status = "SUCCESS"
       /\ (Reached(result, result.target1) /\ ~Reached(result, result.target2))
             => result.overall_status = "OPPORTUNITY"

RECURSIVE SeqSum(_)
SeqSum(q) == IF q = << >> THEN 0 ELSE Head(q) + SeqSum(Tail(q))

RECURSIVE SumOver(_, _)
SumOver(f, S) ==
    IF S = {} THEN 0
    ELSE LET x == CHOOSE y \in S : TRUE IN f[x] + SumOver(f, S \ {x})

AtRiskOf(row) == Abs(row.Entry_Price - row.Stop_Loss) * row.Quantity

PotentialOf(row) == Abs(row.Target_1 - row.Entry_Price) * row.Quantity

ValueOf(row) == row.Quantity * row.Entry_Price

\* C11: total_at_risk is the sum of |entry - stop| x qty, total_potential
\* the sum of |target_1 - entry| x qty, the ratio is the quotient of the two
\* sums (0 when nothing is at risk), and the rating is EXCELLENT from 3,
\* GOOD from 2, FAIR from 1 and POOR below.
C11_RatioOfSums ==
    (pc = "reports" /\ ~IsNone(portfolio_risk)) =>
        LET at_risk == SeqSum([k \in 1..Len(portfolio) |-> AtRiskOf(portfolio[k])])
            potential == SeqSum([k \in 1..Len(portfolio) |-> PotentialOf(portfolio[k])])
        IN  /\ portfolio_risk.total_at_risk = at_risk
            /\ portfolio_risk.total_potential = potential
            /\ portfolio_risk.ratio = (IF at_risk = 0 THEN 0 ELSE (100 * potential) \div at_risk)
            /\ portfolio_risk.rating =
                  (IF at_risk > 0 /\ potential >= 3 * at_risk THEN "EXCELLENT"
                   ELSE IF at_risk > 0 /\ potential >= 2 * at_risk THEN "GOOD"
                   ELSE IF at_risk > 0 /\ potential >= at_risk THEN "FAIR"
                   ELSE "POOR")

\* two rows, one EXCELLENT and one FAIR on its own, whose mean ratio 2 is
\* GOOD and whose ratio of sums is FAIR
C11_Witness ==
    /\ pc = "reports"
    /\ ~IsNone(portfolio_risk)
    /\ Len(portfolio) = 2
    /\ AtRiskOf(portfolio[1]) > 0
    /\ PotentialOf(portfolio[1]) = 3 * AtRiskOf(portfolio[1])
    /\ PotentialOf(portfolio[2]) = AtRiskOf(portfolio[2])
    /\ AtRiskOf(portfolio[2]) > AtRiskOf(portfolio[1])
    /\ portfolio_risk.rating = "FAIR"

\* C12: the percentage of a sector is the value (quantity x entry price)
\* of its positions over the value of all positions, times 100, and the
\* percentages of a portfolio add up to 100.
C12_SharesOfTotalValue ==
    (pc = "reports" /\ ~IsNone(sector_analysis) /\ Len(portfolio) > 0) =>
        LET total == SeqSum([k \in 1..Len(portfolio) |-> ValueOf(portfolio[k])])
            pct == sector_analysis.percentage
        IN  /\ \A sec \in DOMAIN pct :
                  pct[sec] = (sector_analysis.exposure[sec] * 10000) \div total
            /\ SumOver(pct, DOMAIN pct) \in (10000 - Cardinality(DOMAIN pct))..10000

\* C13: a sector at 40% or more has the OVER-CONCENTRATED warning, a
\* sector at 30% or more and below 40% has the HIGH concentration warning,
\* and a sector below 30% has none.
C13_WarningsFromThresholds ==
    (pc = "reports" /\ ~IsNone(sector_analysis)) =>
        \A sec \in DOMAIN sector_analysis.percentage :
            LET pct == sector_analysis.percentage[sec]
                over == [sector |-> sec, level |-> "OVER-CONCENTRATED"]
                high == [sector |-> sec, level |-> "HIGH concentration"]
            IN  /\ pct >= 4000 => over \in sector_analysis.warnings
                /\ (pct >= 3000 /\ pct < 4000)
                      => (high \in sector_analysis.warnings /\ over \notin sector_analysis.warnings)
                /\ pct < 3000
                      => (high \notin sector_analysis.warnings /\ over \notin sector_analysis.warnings)

\* the distinct tickers of the rows from k on that the data provider has
\* history for, in portfolio order
RECURSIVE DistinctWithHistory(_, _, _)
DistinctWithHistory(rows, k, acc) ==
    IF k > Len(rows) THEN acc
    ELSE DistinctWithHistory(rows, k + 1,
            IF rows[k].Ticker \in Range(acc) \/ market[rows[k].Ticker] = << >>
            THEN acc ELSE Append(acc, rows[k].Ticker))

\* C19: the correlation matrix is over the first 10 distinct tickers, in
\* portfolio order, among those with price history; a ticker without
\* history takes none of the 10 places.
C19_FirstTenWithHistory ==
    (pc = "reports" /\ api_call_count > 0) =>
        LET have == DistinctWithHistory(portfolio, 1, << >>)
        IN  prices_dict = SubSeq(have, 1, Min(10, Len(have)))

\* C16: the status is BULLISH from a health score of 70, NEUTRAL from 50,
\* WEAK from 30 and BEARISH below, and every market-health record has an
\* sl_adjustment among NORMAL, TIGHTEN and AGGRESSIVE.
C16_StatusAndAdjustment ==
    ~IsNone(market_health) =>
        /\ market_health.status =
              (IF market_health.health_score >= 70 THEN "BULLISH"
               ELSE IF market_health.health_score >= 50 THEN "NEUTRAL"
               ELSE IF market_health.health_score >= 30 THEN "WEAK"
               ELSE "BEARISH")
        /\ "sl_adjustment" \in DOMAIN market_health
        /\ market_health.sl_adjustment \in {"NORMAL", "TIGHTEN", "AGGRESSIVE"}

\* the RSI-zone adjustment of the claim, the RSI in hundredths
RsiZoneAdjustment(rsi) ==
    IF rsi > 7000 THEN -10
    ELSE IF rsi > 6000 THEN 15
    ELSE IF rsi > 5000 THEN 10
    ELSE IF rsi > 4000 THEN -5
    ELSE IF rsi > 3000 THEN -15
    ELSE 10

\* C18: the momentum score is the baseline 50 plus the RSI-zone adjustment
\* -10 above 70, +15 above 60, +10 above 50, -5 above 40, -15 above 30 and
\* +10 at 30 and below, plus the MACD adjustment, clamped to [0, 100].
C18_RsiZones ==
    HasResult(result) =>
        result.momentum_score =
            Max(0, Min(100, 50 + RsiZoneAdjustment(result.rsi)
                               + (IF result.macd_hist > 0 THEN 20 ELSE -20)))

\* the latest indicator call was a call of fn
Called(fn) == ~IsNone(indicator) /\ indicator.fn = fn

\* C15: calculate_rsi of a flat series of more than period closes is
\* exactly 50 at the last bar, not NaN.
C15_FlatRsiIsFifty ==
    (Called("calculate_rsi") /\ Len(indicator.df.Close) > RsiPeriod
        /\ \A t \in 1..Len(indicator.df.Close) : indicator.df.Close[t] = indicator.df.Close[1])
    => indicator.value = 5000

\* the priority of the claim for a risk score
PriorityOf(score) ==
    IF score >= 80 THEN "CRITICAL"
    ELSE IF score >= 60 THEN "HIGH"
    ELSE IF score >= 40 THEN "MEDIUM"
    ELSE "LOW"

\* current_price x d / 100 for the distance d of the call: the price
\* less the stop when LONG, the stop less the price when SHORT
StopGap == IF indicator.position_type = "LONG"
           THEN indicator.current_price - indicator.stop_loss
           ELSE indicator.stop_loss - indicator.current_price

\* C17: with the stop not breached, the distance d to the stop scores 40
\* for d < 1, 30 for 1 <= d < 2, 15 for 2 <= d < 3 and 0 for d >= 3, for
\* LONG and SHORT alike, and the priority is CRITICAL from a score of 80,
\* HIGH from 60, MEDIUM from 40 and LOW below.
C17_TiersAndPriority ==
    Called("predict_sl_risk") =>
        /\ StopGap >= 0 =>
              indicator.value.risk_score =
                  (IF 100 * StopGap < indicator.current_price THEN 40
                   ELSE IF 100 * StopGap < 2 * indicator.current_price THEN 30
                   ELSE IF 100 * StopGap < 3 * indicator.current_price THEN 15
                   ELSE 0)
        /\ indicator.value.priority = PriorityOf(indicator.value.risk_score)

\* a SHORT position exactly 2% from its stop
C17_Witness ==
    /\ Called("predict_sl_risk")
    /\ indicator.position_type = "SHORT"
    /\ 100 * StopGap = 2 * indicator.current_price
    /\ indicator.value.risk_score = 15
    /\ indicator.value.priority = "LOW"

\* every bar of the frame has low <= close <= high
WellFormedBars(df) ==
    \A t \in 1..Len(df.Close) : df.Low[t] <= df.Close[t] /\ df.Close[t] <= df.High[t]

\* the pivot lows and highs of a frame no longer than the lookback: the
\* bars, three or more from both ends, that are not above (not below)
\* either neighbour
PivotLows(df) ==
    { df.Low[j] : j \in { k \in 4..(Len(df.Low) - 3) :
                              df.Low[k] <= df.Low[k - 1] /\ df.Low[k] <= df.Low[k + 1] } }

PivotHighs(df) ==
    { df.High[j] : j \in { k \in 4..(Len(df.High) - 3) :
                               df.High[k] >= df.High[k - 1] /\ df.High[k] >= df.High[k + 1] } }

SetMax(S) == CHOOSE x \in S : \A y \in S : y <= x

SetMin(S) == CHOOSE x \in S : \A y \in S : x <= y

\* the support and the resistance of the claim for a frame
SupportOf(df) ==
    IF PivotLows(df) # {} THEN SetMax(PivotLows(df)) ELSE SetMin(Range(df.Low))

ResistanceOf(df) ==
    IF { h \in PivotHighs(df) : h > iloc_last(df.Close) } # {}
    THEN SetMin({ h \in PivotHighs(df) : h > iloc_last(df.Close) })
    ELSE SetMax(Range(df.High))

\* a call of find_support_resistance on 10 bars or more with low <= close <= high
LevelsCall ==
    /\ Called("find_support_resistance")
    /\ Len(indicator.df.Close) >= 10
    /\ WellFormedBars(indicator.df)

\* C20 as stated: nearest_support is the highest pivot low (the lowest low
\* without one), nearest_resistance the lowest pivot high above the price
\* (the highest high without one), and the price lies between the two:
\* both distances are non-negative.
C20_PriceBetweenLevels ==
    LevelsCall =>
        /\ indicator.value.nearest_support = FP * SupportOf(indicator.df)
        /\ indicator.value.nearest_resistance = FP * ResistanceOf(indicator.df)
        /\ indicator.value.nearest_support <= FP * iloc_last(indicator.df.Close)
        /\ FP * iloc_last(indicator.df.Close) <= indicator.value.nearest_resistance
        /\ indicator.value.distance_to_support >= 0
        /\ indicator.value.distance_to_resistance >= 0

\* C20 amended: the two levels are as stated and the price is never above
\* nearest_resistance; nearest_support is at or below the price exactly
\* when no pivot low lies above the price, and otherwise it is that pivot
\* low, above the price, with a negative distance_to_support.
C20_LevelsAndDistances ==
    LevelsCall =>
        /\ indicator.value.nearest_support = FP * SupportOf(indicator.df)
        /\ indicator.value.nearest_resistance = FP * ResistanceOf(indicator.df)
        /\ FP * iloc_last(indicator.df.Close) <= indicator.value.nearest_resistance
        /\ indicator.value.distance_to_resistance >= 0
        /\ (indicator.value.nearest_support <= FP * iloc_last(indicator.df.Close))
              <=> (\A low \in PivotLows(indicator.df) : low <= iloc_last(indicator.df.Close))
        /\ (indicator.value.distance_to_support >= 0)
              <=> (\A low \in PivotLows(indicator.df) : low <= iloc_last(indicator.df.Close))

\* the price has fallen below a pivot low and a pivot high above it exists
C20_Witness ==
    /\ LevelsCall
    /\ PivotLows(indicator.df) # {}
    /\ indicator.value.distance_to_support < 0
    /\ indicator.value.nearest_resistance < FP * SetMax(Range(indicator.df.High))
    /\ indicator.value.distance_to_resistance > 0

\* the levels of a stored row are on the sides of the entry that its
\* direction asks for
WellFormed(row) ==
    IF row.position = "LONG"
    THEN row.stop_loss < row.entry_price /\ row.entry_price < row.target_1
    ELSE row.stop_loss > row.entry_price /\ row.entry_price > row.target_1

\* C14: every stored ACTIVE or PENDING position has stop_loss < entry_price
\* < target_1 when LONG and stop_loss > entry_price > target_1 when SHORT,
\* whatever adds and updates of stop loss and targets came before.
C14_StoredPositionsWellFormed ==
    \A k \in DOMAIN portfolio_trades :
        portfolio_trades[k].status \in {"ACTIVE", "PENDING"} => WellFormed(portfolio_trades[k])

\* the low of the latest day of a frame: the frames here carry the closes,
\* and the days taken are those that trade no lower than they close
LatestLow(df) == iloc_last(df.Close)

\* the market is not BEARISH and the volatility index is at most 25
CalmMarket ==
    IsNone(market_health) \/ (market_health.status # "BEARISH" /\ market_health.vix <= 25)

\* C22: in the batch of main, a LONG position whose day low is at or above
\* 0.98 x stop_loss, in a market that is not BEARISH and with a volatility
\* index of at most 25, is not flagged as an emergency.
C22_FlaggedOnlyByRule ==
    (pc = "done" /\ CalmMarket)
    => \A k \in 1..Len(results) :
          (results[k].position_type = "LONG"
           /\ 100 * LatestLow(results[k].df) >= 98 * results[k].stop_loss)
          => ~emergencies[k].emergency

\* the first attempt at which yfinance gives a series that is not empty,
\* 0 when there is none among the three
FirstData(outcomes, history) ==
    IF Len(history) = 0 THEN 0
    ELSE IF outcomes[1] = "data" THEN 1
    ELSE IF outcomes[2] = "data" THEN 2
    ELSE IF outcomes[3] = "data" THEN 3
    ELSE 0

\* the latest call is one of get_stock_data_safe
FetchCall == ~IsNone(indicator) /\ Get(indicator, "fn", "") = "get_stock_data_safe"

\* C29: get_stock_data_safe makes at most 3 fetch attempts, returns the data
\* of the first attempt that gives a series that is not empty and stops
\* there, returns None when all three attempts raise or give nothing, and
\* raises nothing.
C29_ThreeAttemptsThenNone ==
    FetchCall
    => LET first == FirstData(indicator.outcomes, market[indicator.ticker])
           attempts == api_call_count - indicator.calls_before
       IN  /\ ~IsRaised(indicator.df)
           /\ attempts \in 1..3
           /\ first # 0 => /\ attempts = first
                           /\ indicator.df = DataFrame(market[indicator.ticker])
           /\ first = 0 => attempts = 3 /\ IsNone(indicator.df)

\* the first two attempts fail, one raising and one giving an empty frame,
\* and the third gives the data
C29_Witness ==
    /\ FetchCall
    /\ indicator.outcomes = << "raise", "empty", "data" >>
    /\ indicator.ticker = "TCS"
    /\ indicator.df = DataFrame(BaseCloses)
    /\ api_call_count = indicator.calls_before + 3

\* how many rows of trade_history a user has
RECURSIVE HistoryRowsOf(_, _)
HistoryRowsOf(u, k) ==
    IF k = 0 THEN 0
    ELSE HistoryRowsOf(u, k - 1) + (IF trade_history[k].user_id = u THEN 1 ELSE 0)

\* the counters of performance_stats of a user, zero without a row
StatsOf(u) ==
    IF u \in DOMAIN performance_stats THEN performance_stats[u]
    ELSE [total_trades |-> 0, wins |-> 0, losses |-> 0, total_profit |-> 0, total_loss |-> 0]

\* the rows of portfolio_trades that a step changes
ChangedTrades ==
    { k \in DOMAIN portfolio_trades :
        k \notin DOMAIN portfolio_trades' \/ portfolio_trades'[k] # portfolio_trades[k] }

\* a step that is a call of mark_position_inactive_mysql
CloseStep == store_call'.fn = "mark_position_inactive_mysql" /\ closeVars' # closeVars

\* for every user total_trades = wins + losses = the rows of trade_history
\* of the user = the closes that succeeded
CountsAgree ==
    \A u \in Users :
        /\ StatsOf(u).total_trades = StatsOf(u).wins + StatsOf(u).losses
        /\ StatsOf(u).total_trades = HistoryRowsOf(u, Len(trade_history))
        /\ StatsOf(u).total_trades = closed_trades[u]

\* C27: after any calls of mark_position_inactive_mysql, for every user
\* total_trades = wins + losses = the rows of trade_history of the user =
\* the closes that succeeded; a close that succeeds turns exactly one row
\* of portfolio_trades, an ACTIVE row of the user with the ticker,
\* INACTIVE; a close that fails changes no table.
C27_CloseBookkeeping ==
    [][/\ CountsAgree'
       /\ CloseStep =>
          IF store_call'.success
          THEN /\ Cardinality(ChangedTrades) = 1
               /\ \A k \in ChangedTrades :
                     /\ portfolio_trades[k].status = "ACTIVE"
                     /\ portfolio_trades[k].user_id = store_call'.user_id
                     /\ portfolio_trades[k].ticker = store_call'.ticker
                     /\ portfolio_trades'[k].status = "INACTIVE"
               /\ Len(portfolio_trades') = Len(portfolio_trades)
          ELSE UNCHANGED << portfolio_trades, trade_history, performance_stats,
                            closed_trades, authVars >>]_vars

\* a user has closed two trades, one at a profit and one not
C27_Witness ==
    /\ \E u \in Users :
          /\ closed_trades[u] = 2
          /\ StatsOf(u).wins = 1
          /\ StatsOf(u).losses = 1
          /\ HistoryRowsOf(u, Len(trade_history)) = 2
    /\ ~IsNone(store_call)
    /\ store_call.fn = "mark_position_inactive_mysql"

\* the rows of a table that belong to other users than u
RowsOfOthers(table, u) == { row \in Range(table) : row.user_id # u }

\* C28: an operation on the position store made for a user leaves every
\* row of every other user in place and as it was, whatever position id or
\* ticker is passed.
C28_OnlyOwnRows ==
    [][~IsNone(store_call') =>
          /\ RowsOfOthers(positions, store_call'.user_id) \subseteq Range(positions')
          /\ RowsOfOthers(portfolio_trades, store_call'.user_id)
                \subseteq Range(portfolio_trades')]_vars

\* the rows of session_tokens that hold the token of the session state and
\* have not expired
UnexpiredRows ==
    IF truthy(auth_state.session_token) /\ isinstance(auth_state.session_token, "str")
    THEN { row \in token_rows(session_tokens, auth_state.session_token.value) :
             row.expires_at >= now }
    ELSE {}

\* a page rerun whose token is in session_tokens and unexpired, whose cached
\* validation is absent or at least 10 minutes old, with the database at hand
StaleSessionCheck ==
    /\ UnexpiredRows # {}
    /\ ~cached_session(auth_state, now)
    /\ CheckExistingSession(TRUE, FALSE)

\* C21: when the session state holds a token that exists and is unexpired in
\* session_tokens and the cached validation is absent or older than 10
\* minutes, check_existing_session returns True and the session state is
\* logged in with the user id of the token's row; the session is not cleared.
C21_AutoLogin ==
    [][StaleSessionCheck =>
          /\ auth_call'.returned = TRUE
          /\ auth_state'.is_logged_in
          /\ \E row \in UnexpiredRows : auth_state'.user_id = PyInt(row.user_id)
          /\ auth_state'.session_token = auth_state.session_token]_vars

\* the account has MAX_LOGIN_ATTEMPTS failed attempts or more
Accumulated(username) ==
    /\ username \in DOMAIN users
    /\ users[username].failed_login_attempts >= MAX_LOGIN_ATTEMPTS

\* a call of login_user for an account with its failed attempts accumulated,
\* made before locked_until has passed
LoginWhileLocked(c, attempt) ==
    /\ Accumulated(attempt.username)
    /\ users[attempt.username].locked_until > now
    /\ LoginBegin(c, TRUE, attempt.username, attempt.password)

\* the first call of login_user for such an account once locked_until has passed
LoginAfterExpiry(c, attempt) ==
    /\ Accumulated(attempt.username)
    /\ users[attempt.username].locked_until <= now
    /\ LoginBegin(c, TRUE, attempt.username, attempt.password)

\* C23: once an account has accumulated MAX_LOGIN_ATTEMPTS failed attempts it
\* is locked for ACCOUNT_LOCK_DURATION_MINUTES from the last of them; every
\* login_user call made for it before locked_until has passed returns the
\* account-locked result, whatever the password, goes no further and leaves
\* users and session_tokens alone; the first call made after locked_until
\* has passed sets failed_login_attempts to 0 and locked_until to NULL.
C23_Lockout ==
    [][/\ \A username \in DOMAIN users' :
             users'[username].failed_login_attempts >= MAX_LOGIN_ATTEMPTS
                => users'[username].locked_until # Null
       /\ \A c \in Connections :
             /\ LoginIncrement(c)
             /\ users'[calls[c].username].failed_login_attempts >= MAX_LOGIN_ATTEMPTS
             => users'[calls[c].username].locked_until = now + ACCOUNT_LOCK_DURATION_MINUTES
       /\ \A c \in Connections, attempt \in LoginAttempts :
             /\ LoginWhileLocked(c, attempt)
                   => /\ auth_call' = login_result(FALSE, "Account locked", None)
                      /\ UNCHANGED << users, session_tokens, issued, calls >>
             /\ LoginAfterExpiry(c, attempt)
                   => /\ users'[attempt.username].failed_login_attempts = 0
                      /\ users'[attempt.username].locked_until = Null
                      /\ calls'[c].at = "fetch"]_vars

\* asha, locked out with her attempts accumulated, has just been refused
C23_Witness ==
    /\ pc = "login"
    /\ Accumulated("asha")
    /\ users["asha"].locked_until > now
    /\ auth_call = login_result(FALSE, "Account locked", None)

\* C24: failed_login_attempts of a user never exceeds MAX_LOGIN_ATTEMPTS,
\* also when calls of login_user for the same username run at once.
C24_AttemptsBounded ==
    \A username \in DOMAIN users :
        users[username].failed_login_attempts <= MAX_LOGIN_ATTEMPTS

\* the user ids of the accounts
UserIds == { users[username].id : username \in DOMAIN users }

\* C25: each user has at most one row in session_tokens in every reachable
\* state, also when two logins of the same user interleave.
C25_OneTokenPerUser ==
    \A user_id \in UserIds : Cardinality(tokens_of(session_tokens, user_id)) <= 1

\* a call of reset_password_with_token that fails validation: no connection,
\* a weak password, an unknown, used or expired token
ResetRefused(c, connection, token, new_password) ==
    /\ ResetBegin(c, connection, token, new_password)
    /\ calls'[c].at = "idle"

\* a call of reset_password_with_token succeeds and changes the password
ResetSucceeds(c) == \E salt \in Salts : ResetUpdate(c, FALSE, salt)

\* C26: a password-reset token is single-use: a call of
\* reset_password_with_token succeeds only with a token no call has succeeded
\* with before (its row is not yet used), also when two calls with the same
\* token run at once; and a call that fails validation changes neither the
\* table users nor the table password_reset_tokens.
C26_SingleUse ==
    [][/\ \A c \in Connections :
             ResetSucceeds(c)
                => \A row \in reset_rows(password_reset_tokens, calls[c].token) : ~row.used
       /\ \A c \in Connections, connection \in BOOLEAN, token \in ResetTokens :
          \A new_password \in ResetPasswords :
             ResetRefused(c, connection, token, new_password)
                => UNCHANGED << users, password_reset_tokens >>]_vars


==============================================================================
